---- MODULE Spec2Model ----
(***************************************************************************)
(* A model of the wiki-markup segmentation engine of noveoko/24nme:        *)
(*   - WikiMarkupParser.parse_string and WikiLinkedList (src/linked_list.py)*)
(*   - parse_wiki_markup and get_element_context                            *)
(*     (src/engine/parse_wiki_markup.py)                                    *)
(* Text is modelled as sequences of one-character strings, so that the     *)
(* regular expressions, str.count, str.strip, str.split and slicing of the *)
(* source are computed character by character.  Indices into Python lists  *)
(* and strings are 0-based as in the source; At and PySlice convert.       *)
(***************************************************************************)
EXTENDS Integers, Sequences, FiniteSets, TLC

VARIABLES
    pc,          \* position of the running call
    content,     \* parse_string: the argument `content`
    lines,       \* parse_string: `lines`
    i,           \* parse_string: the scan index `i`
    heap,        \* every ContentChunk object created so far (id = position)
    head,        \* WikiLinkedList.head  (a chunk id, or None)
    tail,        \* WikiLinkedList.tail
    size,        \* WikiLinkedList.size
    all_chunks,  \* WikiLinkedList._all_chunks (chunk ids)
    spans,       \* history: per chunk id, <<first, last>> line consumed for it
    steps,       \* history: per loop iteration, its kind, start, end_idx and resume index
    element_id,  \* get_element_context: argument element_id
    raw_text,    \* get_element_context: argument raw_text
    window_size, \* get_element_context: argument window_size
    before,      \* get_element_context: argument before
    after,       \* get_element_context: argument after
    match,       \* get_element_context: `match` (span of the first marker found)
    context_parts, \* get_element_context: `context_parts`
    result,      \* get_element_context: the returned value
    wiki_text,   \* parse_wiki_markup: the argument, as the tokens wtp.parse finds
    parsed,      \* parse_wiki_markup: `parsed`, the text as rewritten so far
    todo,        \* parse_wiki_markup: positions in `parsed` of the objects the running loop still visits
    infoboxes,   \* parse_wiki_markup: `infoboxes`
    tables,      \* parse_wiki_markup: `tables`
    bullet_groups, \* parse_wiki_markup: `bullet_groups`
    ex_raw_text, \* parse_wiki_markup: its local `raw_text`, returned under "raw_text"
    uid,         \* number of ids get_id has handed out
    gc_chunk,    \* get_context: the argument `chunk`
    gc_before,   \* get_context: the argument `before`
    gc_after,    \* get_context: the argument `after`
    current,     \* get_context: `current`
    gc_left,     \* get_context: iterations the running `for _ in range(...)` has left
    context,     \* get_context: `context`
    page,        \* process_page_html: the tables pd.read_html finds in html_content
    pp_i,        \* process_page_html: number of the table the loop is at (from 1)
    response,    \* process_page_html: what llm_client returned to analyze_table_metadata for the last table
    verification, \* process_page_html: what llm_client returned to verify_extraction for the last table
    all_extracted_people, \* process_page_html: `all_extracted_people`
    accepted_under, \* history: per accepted frame, the two responses it was accepted under
    returned,    \* process_page_html: the returned DataFrame
    raised,      \* process_page_html: the exception that left the call, if any
    other        \* a second call of parse_string on the same parser, while it is not running: its locals

parseVars == <<content, lines, i, heap, head, tail, size, all_chunks, spans, steps>>

ctxVars == <<element_id, raw_text, window_size, before, after, match, context_parts, result>>

exVars == <<wiki_text, parsed, todo, infoboxes, tables, bullet_groups, ex_raw_text, uid>>

navVars == <<gc_chunk, gc_before, gc_after, current, gc_left, context>>

pipeVars == <<page, pp_i, response, verification, all_extracted_people, accepted_under,
              returned, raised>>

runVars == <<other>>

\* the variables of the operations other than get_context / process_page_html
navRest == <<pipeVars, runVars>>
pipeRest == <<navVars, runVars>>

moreVars == <<navVars, pipeVars, runVars>>

----------------------------------------------------------------------------
(* Bounds of the model *)

MaxLines == 3
MaxPieces == 3
MaxWindow == 3
MaxNodes == 2
MaxCount == 2
MaxTables == 2
MaxRows == 1
MaxRunLines == 2
MaxChunks == 3
MaxAppends == 3

----------------------------------------------------------------------------
(* Python values *)

None == 0
NoLevel == 0

NL == "\n"

\* the characters str.strip() and the regex class \s treat as whitespace
Whitespace == {" ", "\t", "\n", "\r"}

Min(a, b) == IF a < b THEN a ELSE b
Max(a, b) == IF a < b THEN b ELSE a

\* lst[k] with a 0-based index k
At(s, k) == s[k + 1]

\* s[a:b] for 0 <= a, b
Slice(s, a, b) ==
    LET lo == Min(a, Len(s))
        hi == Min(b, Len(s))
    IN  IF lo >= hi THEN <<>> ELSE SubSeq(s, lo + 1, hi)

\* s[a:b] of Python, negative indices counted from the end
PySlice(s, a, b) ==
    LET n  == Len(s)
        lo == IF a < 0 THEN Max(n + a, 0) ELSE Min(a, n)
        hi == IF b < 0 THEN Max(n + b, 0) ELSE Min(b, n)
    IN  IF lo >= hi THEN <<>> ELSE SubSeq(s, lo + 1, hi)

RECURSIVE LStrip(_)
LStrip(s) ==
    IF s # <<>> /\ Head(s) \in Whitespace THEN LStrip(Tail(s)) ELSE s

RECURSIVE RStrip(_)
RStrip(s) ==
    IF s # <<>> /\ s[Len(s)] \in Whitespace
    THEN RStrip(SubSeq(s, 1, Len(s) - 1))
    ELSE s

\* str.strip()
Strip(s) == LStrip(RStrip(s))

\* str.startswith(p)
StartsWith(s, p) == Len(s) >= Len(p) /\ SubSeq(s, 1, Len(p)) = p

\* s.count(sub): non-overlapping occurrences, scanned left to right
RECURSIVE CountFrom(_, _, _)
CountFrom(s, sub, k) ==
    IF k + Len(sub) > Len(s) THEN 0
    ELSE IF SubSeq(s, k + 1, k + Len(sub)) = sub
         THEN 1 + CountFrom(s, sub, k + Len(sub))
         ELSE CountFrom(s, sub, k + 1)

Count(s, sub) == CountFrom(s, sub, 0)

\* sep.join(parts) for a one-character separator
RECURSIVE Join(_, _)
Join(parts, sep) ==
    IF parts = <<>> THEN <<>>
    ELSE IF Len(parts) = 1 THEN parts[1]
    ELSE parts[1] \o <<sep>> \o Join(Tail(parts), sep)

\* s.split(sep): never empty, '' splits to ['']
RECURSIVE SplitFrom(_, _, _)
SplitFrom(s, sep, cur) ==
    IF s = <<>> THEN <<cur>>
    ELSE IF Head(s) = sep THEN <<cur>> \o SplitFrom(Tail(s), sep, <<>>)
    ELSE SplitFrom(Tail(s), sep, Append(cur, Head(s)))

Split(s, sep) == SplitFrom(s, sep, <<>>)

\* index of the first character at or after k that is not in `set` (Len(s) if none)
RECURSIVE FindNotIn(_, _, _)
FindNotIn(s, k, set) ==
    IF k < Len(s) /\ At(s, k) \in set THEN FindNotIn(s, k + 1, set) ELSE k

\* where a greedy \s* that starts at k ends
SkipWs(s, k) == FindNotIn(s, k, Whitespace)

\* index of the first character at or after k that is in `stop` (Len(s) if none)
RECURSIVE FindAny(_, _, _)
FindAny(s, k, stop) ==
    IF k < Len(s) /\ At(s, k) \notin stop THEN FindAny(s, k + 1, stop) ELSE k

AllIn(s, set) == \A k \in 1..Len(s) : s[k] \in set

----------------------------------------------------------------------------
(* WikiMarkupParser.patterns, each as used with .match(line) on one line *)

\* r'^(={1,6})\s*(.*?)\s*\1\s*$': the length of group 1, 0 when no match.
\* The greedy group takes the largest N in 1..6 for which the line starts with
\* N '=' and, trailing whitespace dropped, ends with N further '='.
heading_level(line) ==
    LET r == RStrip(line)
        ok(n) == /\ Len(r) >= 2 * n
                 /\ \A k \in 1..n : r[k] = "="
                 /\ \A k \in (Len(r) - n + 1)..Len(r) : r[k] = "="
        ns == {n \in 1..6 : ok(n)}
    IN  IF ns = {} THEN 0 ELSE CHOOSE n \in ns : \A m \in ns : m <= n

heading_match(line) == heading_level(line) > 0

\* group 2 of the heading pattern: the text between the delimiters, the
\* surrounding \s* taken off
heading_text(line) ==
    LET r == RStrip(line)
        n == heading_level(line)
    IN  Strip(SubSeq(r, n + 1, Len(r) - n))

\* r'^\{\|'
table_start(line) == StartsWith(line, <<"{", "|">>)

\* r'^\|\}'
table_end(line) == StartsWith(line, <<"|", "}">>)

\* r'\{\{[Ii]nfobox' with .match: anchored at the start of the line
infobox_start(line) ==
    \/ StartsWith(line, <<"{", "{", "I", "n", "f", "o", "b", "o", "x">>)
    \/ StartsWith(line, <<"{", "{", "i", "n", "f", "o", "b", "o", "x">>)

ListMarkers == {"*", "#", ":", ";"}

\* r'^([*#:;]+)\s*(.*)$'
list_item(line) == line # <<>> /\ line[1] \in ListMarkers

\* group 1 of the list pattern: the leading run of marker characters
list_marker(line) == SubSeq(line, 1, FindNotIn(line, 0, ListMarkers))

\* r'^----+\s*$'
horizontal_rule(line) ==
    LET r == RStrip(line) IN Len(r) >= 4 /\ AllIn(r, {"-"})

\* not line.strip()
blank(line) == Strip(line) = <<>>

----------------------------------------------------------------------------
(* WikiMarkupParser._parse_infobox_fields *)

InfoboxWord == <<"{", "{", "I", "n", "f", "o", "b", "o", "x">>
Unknown == <<"u", "n", "k", "n", "o", "w", "n">>

\* re.match(r'\{\{[Ii]nfobox\s+([^|\n]+)', infobox_content), group 1 stripped;
\* Unknown when the pattern does not match.  \s+ is greedy and may cross line
\* ends; when the character after it cannot start the group, \s+ gives back
\* characters and the group starts on whitespace that is not a newline.
infobox_type(text) ==
    LET p == Len(InfoboxWord)
        a == SkipWs(text, p)
    IN  IF ~infobox_start(text) \/ a = p THEN Unknown
        ELSE IF a < Len(text) /\ At(text, a) \notin {"|", NL}
        THEN Strip(Slice(text, a, FindAny(text, a, {"|", NL})))
        ELSE IF \E b \in (p + 1)..(a - 1) : At(text, b) # NL
        THEN <<>>
        ELSE Unknown

\* ^ under re.MULTILINE
LineStart(text, p) == p = 0 \/ At(text, p - 1) = NL

\* One attempt of r'^\|\s*([^=\n]+?)\s*=\s*(.*)$' at position p.
\* Every \s* may cross line ends; the name is the shortest run of characters
\* other than '=' and newline that is followed by \s* and '='; the value
\* starts after the \s* that follows '=' and runs to the end of that line.
field_match(text, p) ==
    LET q == SkipWs(text, p + 1)
        r == FindAny(text, q, {"=", NL})
        c == IF q < Len(text) /\ At(text, q) = "=" THEN q ELSE SkipWs(text, r)
        ok == /\ LineStart(text, p)
              /\ p < Len(text) /\ At(text, p) = "|"
              /\ q < Len(text)
              /\ IF At(text, q) = "="
                 THEN \E a \in (p + 1)..(q - 1) : At(text, a) # NL
                 ELSE c < Len(text) /\ At(text, c) = "="
        d == SkipWs(text, c + 1)
        e == FindAny(text, d, {NL})
    IN  [ok    |-> ok,
         name  |-> IF ok /\ At(text, q) # "=" THEN Strip(Slice(text, q, r)) ELSE <<>>,
         value |-> IF ok THEN Strip(Slice(text, d, e)) ELSE <<>>,
         end   |-> IF ok THEN e ELSE p]

\* field_pattern.finditer(infobox_content), with the loop body of lines 290-296:
\* a later assignment to the same name replaces the earlier one
RECURSIVE fields_from(_, _, _)
fields_from(text, pos, acc) ==
    IF pos >= Len(text) THEN acc
    ELSE LET m == field_match(text, pos)
         IN  IF ~m.ok THEN fields_from(text, pos + 1, acc)
             ELSE fields_from(text, Max(m.end, pos + 1),
                      IF m.value # <<>>
                      THEN [k \in DOMAIN acc \cup {m.name} |->
                               IF k = m.name THEN m.value ELSE acc[k]]
                      ELSE acc)

parse_infobox_fields(text) ==
    [type |-> infobox_type(text), fields |-> fields_from(text, 0, <<>>)]

----------------------------------------------------------------------------
(* Block extractors.  Each takes `lines` and the 0-based start index and     *)
(* gives the index the source's loop variable i has when its loop ends.      *)

\* a variant of table_scan that takes any line starting with '|' as the end
RECURSIVE table_scan_any_bar(_, _)
table_scan_any_bar(ls, k) ==
    IF k < Len(ls)
    THEN IF StartsWith(At(ls, k), <<"|">>) THEN k ELSE table_scan_any_bar(ls, k + 1)
    ELSE k

\* _extract_table, lines 233-239: i after the while loop
RECURSIVE table_scan(_, _)
table_scan(ls, k) ==
    IF k < Len(ls)
    THEN IF table_end(At(ls, k)) THEN k ELSE table_scan(ls, k + 1)
    ELSE k

\* _extract_table: (table_content, end_idx)
extract_table(ls, start_idx) ==
    LET k == table_scan(ls, start_idx + 1)
    IN  [content   |-> Join(Slice(ls, start_idx, k + 1), NL),
         end_idx   |-> k]

\* line.count('{{') - line.count('}}')
brace_delta(line) == Count(line, <<"{", "{">>) - Count(line, <<"}", "}">>)

\* a variant of infobox_scan that ends at the first line holding '}}'
RECURSIVE infobox_scan_first_close(_, _, _)
infobox_scan_first_close(ls, k, brace_depth) ==
    IF k < Len(ls) /\ brace_depth > 0
    THEN infobox_scan_first_close(ls, k + 1,
             IF Count(At(ls, k), <<"}", "}">>) > 0 THEN 0 ELSE brace_depth)
    ELSE k

\* _extract_infobox, lines 258-262: i after the while loop
RECURSIVE infobox_scan(_, _, _)
infobox_scan(ls, k, brace_depth) ==
    IF k < Len(ls) /\ brace_depth > 0
    THEN infobox_scan(ls, k + 1, brace_depth + brace_delta(At(ls, k)))
    ELSE k

\* _extract_infobox: (raw_content, end_idx, parsed_data)
extract_infobox(ls, start_idx) ==
    LET k   == infobox_scan(ls, start_idx + 1, brace_delta(At(ls, start_idx)))
        raw == Join(Slice(ls, start_idx, k), NL)
    IN  [content     |-> raw,
         end_idx     |-> k - 1,
         parsed_data |-> parse_infobox_fields(raw)]

\* a variant of list_scan that takes the first line only
list_scan_one_line(ls, k) == k + 1

\* _extract_list, lines 305-310: i after the while loop
RECURSIVE list_scan(_, _)
list_scan(ls, k) ==
    IF k < Len(ls) /\ list_item(At(ls, k)) THEN list_scan(ls, k + 1) ELSE k

\* a variant of extract_list that joins the lines with a space
extract_list_space_joined(ls, start_idx) ==
    LET k == list_scan(ls, start_idx)
    IN  [content |-> Join(Slice(ls, start_idx, k), " "),
         end_idx |-> k - 1]

\* _extract_list: (list_content, end_idx)
extract_list(ls, start_idx) ==
    LET k == list_scan(ls, start_idx)
    IN  [content |-> Join(Slice(ls, start_idx, k), NL),
         end_idx |-> k - 1]

\* a variant of paragraph_stop that also stops at a table end line
paragraph_stop_at_table_end(line) ==
    \/ blank(line)
    \/ heading_match(line)
    \/ table_start(line)
    \/ table_end(line)
    \/ list_item(line)
    \/ horizontal_rule(line)

\* a variant of paragraph_stop that also stops at an infobox start line
paragraph_stop_at_infobox(line) ==
    \/ blank(line)
    \/ heading_match(line)
    \/ infobox_start(line)
    \/ table_start(line)
    \/ list_item(line)
    \/ horizontal_rule(line)

\* a variant of the stop condition that lets a paragraph run over blank lines
paragraph_stop_not_blank(line) ==
    \/ heading_match(line)
    \/ table_start(line)
    \/ list_item(line)
    \/ horizontal_rule(line)

\* the stop condition of _extract_paragraph, lines 322-326
paragraph_stop(line) ==
    \/ blank(line)
    \/ heading_match(line)
    \/ table_start(line)
    \/ list_item(line)
    \/ horizontal_rule(line)

\* _extract_paragraph, lines 319-329: i after the while loop
RECURSIVE paragraph_scan(_, _)
paragraph_scan(ls, k) ==
    IF k < Len(ls) /\ ~paragraph_stop(At(ls, k)) THEN paragraph_scan(ls, k + 1) ELSE k

\* _extract_paragraph: (para_content, end_idx)
extract_paragraph(ls, start_idx) ==
    LET k == paragraph_scan(ls, start_idx)
    IN  [content |-> Join(Slice(ls, start_idx, k), NL),
         end_idx |-> k - 1]

----------------------------------------------------------------------------
(* ContentChunk and WikiLinkedList *)

\* ContentChunk(chunk_type, content, level, metadata): prev and next are None
ContentChunk(chunk_type, text, level, metadata) ==
    [chunk_type |-> chunk_type, content |-> text, level |-> level,
     metadata |-> metadata, prev |-> None, next |-> None]

\* a variant of append that does not set chunk.prev
append_no_back_link(h, chunk) ==
    /\ IF head = None
       THEN /\ head' = chunk
            /\ tail' = chunk
            /\ heap' = h
       ELSE /\ heap' = [h EXCEPT ![tail].next = chunk]
            /\ tail' = chunk
            /\ head' = head
    /\ size' = size + 1
    /\ all_chunks' = Append(all_chunks, chunk)

\* WikiLinkedList.append(chunk), on the heap h that already holds the chunk
append(h, chunk) ==
    /\ IF head = None
       THEN /\ head' = chunk
            /\ tail' = chunk
            /\ heap' = h
       ELSE /\ heap' = [[h EXCEPT ![tail].next = chunk] EXCEPT ![chunk].prev = tail]
            /\ tail' = chunk
            /\ head' = head
    /\ size' = size + 1
    /\ all_chunks' = Append(all_chunks, chunk)

\* linked_list.append(ContentChunk(...)) for a chunk made from lines first..last
append_new(rec, first, last) ==
    /\ append(Append(heap, rec), Len(heap) + 1)
    /\ spans' = Append(spans, <<first, last>>)

----------------------------------------------------------------------------
(* WikiMarkupParser.parse_string *)

\* lines 137-141
Begin ==
    /\ pc = "start"
    /\ lines' = Split(content, NL)
    /\ i' = 0
    /\ head' = None /\ tail' = None /\ size' = 0 /\ all_chunks' = <<>>
    /\ steps' = <<>>
    /\ pc' = "scan"
    /\ UNCHANGED <<content, heap, spans, ctxVars, exVars, moreVars>>

Scanning == pc = "scan" /\ i < Len(lines)

line == At(lines, i)

\* history of one loop iteration; stated after i' in every action
Step(kind, end_idx) ==
    /\ steps' = Append(steps, [kind |-> kind, start |-> i, end_idx |-> end_idx,
                               resume |-> i'])
    /\ UNCHANGED <<pc, content, lines, ctxVars, exVars, moreVars>>

\* lines 147-159
Heading ==
    /\ Scanning
    /\ heading_match(line)
    /\ append_new(ContentChunk("heading", Strip(heading_text(line)),
                               heading_level(line), [raw |-> line]), i, i)
    /\ i' = i + 1
    /\ Step("heading", i)

\* lines 162-175
Infobox ==
    /\ Scanning
    /\ ~heading_match(line)
    /\ infobox_start(line)
    /\ LET x == extract_infobox(lines, i)
       IN  /\ append_new(ContentChunk("infobox", x.content, NoLevel,
                  [infobox_type |-> x.parsed_data.type,
                   fields       |-> x.parsed_data.fields,
                   field_count  |-> Cardinality(DOMAIN x.parsed_data.fields)]),
                  i, x.end_idx)
           /\ i' = x.end_idx + 1
           /\ Step("infobox", x.end_idx)

\* lines 178-187
Table ==
    /\ Scanning
    /\ ~heading_match(line) /\ ~infobox_start(line)
    /\ table_start(line)
    /\ LET x == extract_table(lines, i)
       IN  /\ append_new(ContentChunk("table", x.content, NoLevel,
                  [row_count |-> Count(x.content, <<"|", "-">>)]),
                  i, Min(x.end_idx, Len(lines) - 1))
           /\ i' = x.end_idx + 1
           /\ Step("table", x.end_idx)

\* lines 190-201
List ==
    /\ Scanning
    /\ ~heading_match(line) /\ ~infobox_start(line) /\ ~table_start(line)
    /\ list_item(line)
    /\ LET x == extract_list(lines, i)
       IN  /\ append_new(ContentChunk("list", x.content, Len(list_marker(line)),
                  [list_type |-> list_marker(line)[1]]), i, x.end_idx)
           /\ i' = x.end_idx + 1
           /\ Step("list", x.end_idx)

\* lines 204-211
HorizontalRule ==
    /\ Scanning
    /\ ~heading_match(line) /\ ~infobox_start(line) /\ ~table_start(line)
    /\ ~list_item(line)
    /\ horizontal_rule(line)
    /\ append_new(ContentChunk("horizontal_rule", <<"-", "-", "-", "-">>,
                               NoLevel, <<>>), i, i)
    /\ i' = i + 1
    /\ Step("horizontal_rule", i)

\* lines 214-216
BlankLine ==
    /\ Scanning
    /\ ~heading_match(line) /\ ~infobox_start(line) /\ ~table_start(line)
    /\ ~list_item(line) /\ ~horizontal_rule(line)
    /\ blank(line)
    /\ i' = i + 1
    /\ Step("blank", i)
    /\ UNCHANGED <<heap, head, tail, size, all_chunks, spans>>

\* a variant of the paragraph branch that is tried before the blank-line test
Paragraph_before_blank ==
    /\ Scanning
    /\ ~heading_match(line) /\ ~infobox_start(line) /\ ~table_start(line)
    /\ ~list_item(line) /\ ~horizontal_rule(line)
    /\ LET x == extract_paragraph(lines, i)
       IN  /\ IF Strip(x.content) # <<>>
              THEN append_new(ContentChunk("paragraph", x.content, NoLevel, <<>>),
                              i, x.end_idx)
              ELSE UNCHANGED <<heap, head, tail, size, all_chunks, spans>>
           /\ i' = x.end_idx + 1
           /\ Step("paragraph", x.end_idx)

\* lines 219-226
Paragraph ==
    /\ Scanning
    /\ ~heading_match(line) /\ ~infobox_start(line) /\ ~table_start(line)
    /\ ~list_item(line) /\ ~horizontal_rule(line) /\ ~blank(line)
    /\ LET x == extract_paragraph(lines, i)
       IN  /\ IF Strip(x.content) # <<>>
              THEN append_new(ContentChunk("paragraph", x.content, NoLevel, <<>>),
                              i, x.end_idx)
              ELSE UNCHANGED <<heap, head, tail, size, all_chunks, spans>>
           /\ i' = x.end_idx + 1
           /\ Step("paragraph", x.end_idx)

\* line 228: the while condition is false, the list is returned
Return ==
    /\ pc = "scan"
    /\ i >= Len(lines)
    /\ pc' = "done"
    /\ UNCHANGED <<parseVars, ctxVars, exVars, moreVars>>

ParseNext ==
    \/ Begin
    \/ Heading
    \/ Infobox
    \/ Table
    \/ List
    \/ HorizontalRule
    \/ BlankLine
    \/ Paragraph
    \/ Return

----------------------------------------------------------------------------
(* Inputs of parse_string: up to MaxLines lines drawn from LineVocab *)

L_blank    == <<>>
L_space    == <<" ">>
L_heading  == <<"=", "=", " ", "T", " ", "=", "=">>
L_lopsided == <<"=", "=", "=", " ", "T", " ", "=", "=">>
L_infobox  == <<"{", "{", "I", "n", "f", "o", "b", "o", "x", " ", "p">>
L_shout    == <<"{", "{", "I", "N", "F", "O", "B", "O", "X", " ", "p">>
L_oneline  == <<"{", "{", "I", "n", "f", "o", "b", "o", "x", " ", "p", "}", "}">>
L_inner    == <<"x", " ", "{", "{", "I", "n", "f", "o", "b", "o", "x", " ", "p">>
L_field    == <<"|", " ", "a", " ", "=", " ", "x">>
L_empty    == <<"|", " ", "b", " ", "=">>
L_nested   == <<"|", " ", "w", " ", "=", " ", "{", "{", "U", "|", "x", "}", "}">>
L_close    == <<"}", "}">>
L_stray    == <<"}", "}", " ", "}", "}">>
L_topen    == <<"{", "|">>
L_trow     == <<"|", "-">>
L_tcell    == <<"|", " ", "a", "|", "|", "-", "1">>
L_tclose   == <<"|", "}">>
L_item     == <<"*", " ", "i">>
L_mixed    == <<"#", ":", "j">>
L_rule     == <<"-", "-", "-", "-", "-">>
L_text     == <<"t">>

LineVocab ==
    {L_blank, L_space, L_heading, L_lopsided, L_infobox, L_oneline, L_shout, L_inner, L_field, L_empty,
     L_nested, L_close, L_stray, L_topen, L_trow, L_tcell, L_tclose, L_item, L_mixed, L_rule,
     L_text}

Inputs ==
    UNION {[1..n -> LineVocab] : n \in 1..MaxLines}

vars == <<pc, parseVars, ctxVars, exVars, moreVars>>

\* no call of parse_string
ParseIdle ==
    /\ lines = <<>>
    /\ i = 0
    /\ heap = <<>> /\ head = None /\ tail = None /\ size = 0
    /\ all_chunks = <<>> /\ spans = <<>> /\ steps = <<>>

\* no call of get_element_context
CtxIdle ==
    /\ element_id = <<>> /\ raw_text = <<>> /\ window_size = 0
    /\ before = FALSE /\ after = FALSE
    /\ match = [found |-> FALSE] /\ context_parts = <<>>
    /\ result = [kind |-> "unset"]

\* no call of parse_wiki_markup
ExIdle ==
    /\ wiki_text = <<>> /\ parsed = <<>> /\ todo = <<>>
    /\ infoboxes = <<>> /\ tables = <<>> /\ bullet_groups = <<>>
    /\ ex_raw_text = <<>> /\ uid = 0

\* no call of get_context
NavIdle ==
    /\ gc_chunk = None /\ gc_before = 0 /\ gc_after = 0
    /\ current = None /\ gc_left = 0
    /\ context = [before |-> <<>>, current |-> None, after |-> <<>>]

\* no call of process_page_html
PipeIdle ==
    /\ page = <<>> /\ pp_i = 0 /\ response = <<>> /\ verification = <<>>
    /\ all_extracted_people = <<>> /\ accepted_under = <<>>
    /\ returned = <<>> /\ raised = ""

\* the locals of a call of parse_string
Locals(p, c, ls, k, h, t, n, all, st) ==
    [pc |-> p, content |-> c, lines |-> ls, i |-> k, head |-> h, tail |-> t,
     size |-> n, all_chunks |-> all, steps |-> st]

\* no second call of parse_string
RunIdle == other = Locals("idle", <<>>, <<>>, 0, None, None, 0, <<>>, <<>>)

MoreIdle == NavIdle /\ PipeIdle /\ RunIdle

Init ==
    /\ pc = "start"
    /\ content \in {Join(ls, NL) : ls \in Inputs}
    /\ ParseIdle
    /\ CtxIdle
    /\ ExIdle
    /\ MoreIdle

Next == ParseNext

Spec == Init /\ [][Next]_vars

----------------------------------------------------------------------------
(* get_element_context (src/engine/parse_wiki_markup.py) *)

Upper == {"A", "B", "C", "D", "E", "F", "G", "H", "I", "J", "K", "L", "M",
          "N", "O", "P", "Q", "R", "S", "T", "U", "V", "W", "X", "Y", "Z"}

\* One attempt of __[A-Z]+_<element_id>__ at position p.  '_' is not in
\* [A-Z], so the greedy run of capitals has to end just before a '_'.
marker_at(text, id, p) ==
    LET q == FindNotIn(text, p + 2, Upper)
        e == q + 1 + Len(id) + 2
    IN  [found |-> /\ Slice(text, p, p + 2) = <<"_", "_">>
                   /\ q > p + 2
                   /\ e <= Len(text)
                   /\ At(text, q) = "_"
                   /\ Slice(text, q + 1, q + 1 + Len(id)) = id
                   /\ Slice(text, e - 2, e) = <<"_", "_">>,
         start |-> p,
         end   |-> e]

\* pattern.search(raw_text): the leftmost match, lines 162-164
RECURSIVE marker_search(_, _, _)
marker_search(text, id, p) ==
    IF p >= Len(text) THEN [found |-> FALSE]
    ELSE IF marker_at(text, id, p).found THEN marker_at(text, id, p)
    ELSE marker_search(text, id, p + 1)

\* a variant of pre_text without max(0, ...): a negative start counts from the end
pre_text_unclipped(text, start_pos, n) ==
    PySlice(text, start_pos - n, start_pos)

\* lines 176-177
pre_text(text, start_pos, n) ==
    PySlice(text, Max(0, start_pos - n), start_pos)

\* lines 182-183
post_text(text, end_pos, n) ==
    PySlice(text, end_pos, Min(Len(text), end_pos + n))

RECURSIVE Flatten(_)
Flatten(ss) == IF ss = <<>> THEN <<>> ELSE Head(ss) \o Flatten(Tail(ss))

\* a variant of joined_context that returns None for an empty context
joined_context_or_none(parts) ==
    IF Strip(Flatten(parts)) = <<>>
    THEN [kind |-> "None"]
    ELSE [kind |-> "str", value |-> Strip(Flatten(parts))]

\* line 187: "".join(context_parts).strip()
joined_context(parts) == [kind |-> "str", value |-> Strip(Flatten(parts))]

\* lines 162-187 as one call: the value get_element_context returns
get_element_context(id, text, n, b, a) ==
    LET m == marker_search(text, id, 0)
    IN  IF ~m.found THEN [kind |-> "None"]
        ELSE joined_context(
                (IF b THEN <<pre_text(text, m.start, n)>> ELSE <<>>)
                \o (IF a THEN <<post_text(text, m.end, n)>> ELSE <<>>))

\* lines 162-164
CtxSearch ==
    /\ pc = "ctx_call"
    /\ match' = marker_search(raw_text, element_id, 0)
    /\ pc' = "ctx_searched"
    /\ UNCHANGED <<element_id, raw_text, window_size, before, after, context_parts, result>>
    /\ UNCHANGED <<parseVars, exVars, moreVars>>

\* lines 166-168
CtxNotFound ==
    /\ pc = "ctx_searched"
    /\ ~match.found
    /\ result' = [kind |-> "None"]
    /\ pc' = "ctx_done"
    /\ UNCHANGED <<element_id, raw_text, window_size, before, after, match, context_parts>>
    /\ UNCHANGED <<parseVars, exVars, moreVars>>

\* lines 170-178
CtxBefore ==
    /\ pc = "ctx_searched"
    /\ match.found
    /\ context_parts' = IF before
                        THEN <<pre_text(raw_text, match.start, window_size)>>
                        ELSE <<>>
    /\ pc' = "ctx_after"
    /\ UNCHANGED <<element_id, raw_text, window_size, before, after, match, result>>
    /\ UNCHANGED <<parseVars, exVars, moreVars>>

\* lines 181-184
CtxAfter ==
    /\ pc = "ctx_after"
    /\ context_parts' = IF after
                        THEN Append(context_parts,
                                    post_text(raw_text, match.end, window_size))
                        ELSE context_parts
    /\ pc' = "ctx_join"
    /\ UNCHANGED <<element_id, raw_text, window_size, before, after, match, result>>
    /\ UNCHANGED <<parseVars, exVars, moreVars>>

\* line 187
CtxReturn ==
    /\ pc = "ctx_join"
    /\ result' = joined_context(context_parts)
    /\ pc' = "ctx_done"
    /\ UNCHANGED <<element_id, raw_text, window_size, before, after, match, context_parts>>
    /\ UNCHANGED <<parseVars, exVars, moreVars>>

CtxNext == CtxSearch \/ CtxNotFound \/ CtxBefore \/ CtxAfter \/ CtxReturn

(* Inputs of get_element_context: raw_text is made of up to MaxPieces pieces *)

P_word     == <<"x", "y">>
P_space    == <<" ">>
P_padded   == <<" ", "z", " ">>
P_bar      == <<"_">>
P_marker_a == <<"_", "_", "T", "_", "a", "_", "_">>
P_marker_b == <<"_", "_", "L", "I", "_", "b", "_", "_">>
P_lower    == <<"_", "_", "t", "_", "a", "_", "_">>
P_nocat    == <<"_", "_", "_", "a", "_", "_">>

PieceVocab == {P_word, P_space, P_padded, P_bar, P_marker_a, P_marker_b, P_lower, P_nocat}

IdVocab == {<<"a">>, <<"b">>}

Texts == UNION {{Flatten(ps) : ps \in [1..n -> PieceVocab]} : n \in 0..MaxPieces}

CtxInit ==
    /\ pc = "ctx_call"
    /\ content = <<>>
    /\ ParseIdle
    /\ element_id \in IdVocab
    /\ raw_text \in Texts
    /\ window_size \in 0..MaxWindow
    /\ before \in BOOLEAN
    /\ after \in BOOLEAN
    /\ match = [found |-> FALSE]
    /\ context_parts = <<>>
    /\ result = [kind |-> "unset"]
    /\ ExIdle
    /\ MoreIdle

SpecContext == CtxInit /\ [][CtxNext]_vars

----------------------------------------------------------------------------
(* parse_wiki_markup (src/engine/parse_wiki_markup.py)                       *)
(*                                                                           *)
(* wtp.parse(wiki_text) gives one mutable text with a span for every node    *)
(* it finds.  The text is written here as the sequence of its tokens: the    *)
(* spans of templates, tables and lists are runs of tokens, and assigning    *)
(* node.string replaces the run in place, so that every enclosing node sees  *)
(* the replacement.  Render gives back the characters.                       *)

Text(s) == [t |-> "text", s |-> s]
Template(name, arguments) == [t |-> "template", name |-> name, arguments |-> arguments]
Argument(name, value) == [name |-> name, value |-> value]
TableOpen == [t |-> "table_open"]
TableClose == [t |-> "table_close"]
ListOpen(m) == [t |-> "list_open", marker |-> m]
ListItem(m) == [t |-> "item", marker |-> m]
ListClose == [t |-> "list_close"]

UpperSeq == <<"A", "B", "C", "D", "E", "F", "G", "H", "I", "J", "K", "L", "M",
              "N", "O", "P", "Q", "R", "S", "T", "U", "V", "W", "X", "Y", "Z">>
LowerSeq == <<"a", "b", "c", "d", "e", "f", "g", "h", "i", "j", "k", "l", "m",
              "n", "o", "p", "q", "r", "s", "t", "u", "v", "w", "x", "y", "z">>

\* str.lower()
lower(s) ==
    [k \in 1..Len(s) |->
        IF s[k] \in Upper
        THEN LowerSeq[CHOOSE j \in 1..Len(UpperSeq) : UpperSeq[j] = s[k]]
        ELSE s[k]]

\* get_id(): uuid4().hex, a fresh string of fixed length over the hex digits;
\* the n-th id handed out is written with the single digit HexDigits[n]
HexDigits == <<"1", "2", "3", "4", "5", "6", "7", "8", "9", "a", "b", "c", "d", "e", "f">>
get_id(n) == <<HexDigits[n]>>

INFOBOX == <<"I", "N", "F", "O", "B", "O", "X">>
TABLE == <<"T", "A", "B", "L", "E">>
LIST == <<"L", "I", "S", "T">>

\* f"__{category}_{uid}__"
MarkerText(category, id) == <<"_", "_">> \o category \o <<"_">> \o id \o <<"_", "_">>

\* the characters of one token
RenderArguments(arguments) ==
    Flatten([k \in 1..Len(arguments) |->
                <<"|">> \o arguments[k].name \o <<"=">> \o arguments[k].value])

RenderToken(tok) ==
    CASE tok.t = "text" -> tok.s
      [] tok.t = "template" ->
            <<"{", "{">> \o tok.name \o RenderArguments(tok.arguments) \o <<"}", "}">>
      [] tok.t = "table_open" -> <<"{", "|", NL>>
      [] tok.t = "table_close" -> <<NL, "|", "}">>
      [] tok.t = "item" -> <<tok.marker>>
      [] OTHER -> <<>>

\* node.string: the characters of a run of tokens
Render(toks) == Flatten([k \in 1..Len(toks) |-> RenderToken(toks[k])])

\* WikiText.plain_text(): templates are dropped, text (markers included) stays
plain_text(toks) ==
    Render(SelectSeq(toks, LAMBDA tok : tok.t # "template"))

\* the positions of doc that are in hits, in document order
Positions(doc, hits) ==
    SelectSeq([k \in 1..Len(doc) |-> k], LAMBDA k : k \in hits)

\* the position of the token that closes the node opened at position s
SpanEnd(doc, s, close) ==
    CHOOSE e \in s + 1..Len(doc) :
        /\ doc[e].t = close
        /\ \A m \in s + 1..e - 1 : doc[m].t # close

\* node.string = new, for the node that spans positions s..e
Replace(doc, s, e, new) == SubSeq(doc, 1, s - 1) \o new \o SubSeq(doc, e + 1, Len(doc))

\* the positions the loop still has to visit, after s..e shrank by `by` tokens
Shifted(positions, e, by) ==
    [k \in 1..Len(positions) |->
        IF positions[k] > e THEN positions[k] - by ELSE positions[k]]

TemplateNameKey == <<"_", "t", "e", "m", "p", "l", "a", "t", "e", "_", "n", "a", "m", "e">>

\* t.name.strip().lower().startswith("infobox")
is_infobox(tok) ==
    tok.t = "template"
    /\ StartsWith(lower(Strip(tok.name)), lower(INFOBOX))

\* data = {param.name.strip(): param.value.strip() for param in template.arguments}
\* data['_template_name'] = template.name.strip()
\* A later entry with the same key replaces the earlier one.  The registry
\* holds json.dumps(data), which writes out exactly this dict.
infobox_data(tok) ==
    LET args == tok.arguments
        keys == {Strip(args[k].name) : k \in 1..Len(args)}
        last(key) == CHOOSE k \in 1..Len(args) :
                        /\ Strip(args[k].name) = key
                        /\ \A m \in k + 1..Len(args) : Strip(args[m].name) # key
    IN  [key \in keys \cup {TemplateNameKey} |->
            IF key = TemplateNameKey THEN Strip(tok.name)
            ELSE Strip(args[last(key)].value)]

\* parsed.get_lists(): the lists of each pattern in turn, '#' before '*'
get_lists(doc) ==
    Positions(doc, {k \in 1..Len(doc) : doc[k].t = "list_open" /\ doc[k].marker = "#"})
    \o Positions(doc, {k \in 1..Len(doc) : doc[k].t = "list_open" /\ doc[k].marker = "*"})

\* lst.items: the wikitext of each item, the marker left out (here with the
\* line break that ends the item, which current_group strips)
RECURSIVE items_from(_, _)
items_from(toks, k) ==
    IF k > Len(toks) THEN <<>>
    ELSE IF toks[k].t = "item"
    THEN LET nxt == CHOOSE n \in k + 1..Len(toks) + 1 :
                        /\ n = Len(toks) + 1 \/ toks[n].t = "item"
                        /\ \A m \in k + 1..n - 1 : toks[m].t # "item"
         IN  <<SubSeq(toks, k + 1, nxt - 1)>> \o items_from(toks, nxt)
    ELSE items_from(toks, k + 1)

items(doc, s, e) == items_from(SubSeq(doc, s + 1, e - 1), 1)

\* a variant of current_group that keeps the empty items
current_group_with_empty(doc, s, e) ==
    [k \in 1..Len(items(doc, s, e)) |-> Strip(plain_text(items(doc, s, e)[k]))]

\* current_group: wtp.parse(item).plain_text().strip() of each item, the
\* empty ones left out
current_group(doc, s, e) ==
    LET texts == [k \in 1..Len(items(doc, s, e)) |-> Strip(plain_text(items(doc, s, e)[k]))]
    IN  SelectSeq(texts, LAMBDA text_content : text_content # <<>>)

\* a variant of is_bullet_list that accepts every list
is_bullet_list_any_marker(doc, s, e) == Render(SubSeq(doc, s, e)) # <<>>

\* lst.string.strip().startswith('*')
is_bullet_list(doc, s, e) == StartsWith(Strip(Render(SubSeq(doc, s, e))), <<"*">>)

ExBusy(label) ==
    /\ pc = label
    /\ todo # <<>>

ExUnchanged == UNCHANGED <<parseVars, ctxVars, wiki_text, moreVars>>

\* l.7, l.15-18: parse, and collect the infobox templates
ExParse ==
    /\ pc = "ex_call"
    /\ pc' = "ex_infoboxes"
    /\ parsed' = wiki_text
    /\ todo' = Positions(wiki_text, {k \in 1..Len(wiki_text) : is_infobox(wiki_text[k])})
    /\ UNCHANGED <<infoboxes, tables, bullet_groups, ex_raw_text, uid>>
    /\ ExUnchanged

\* l.20-31: one turn of `for template in target_templates`
ExInfobox ==
    /\ ExBusy("ex_infoboxes")
    /\ uid < Len(HexDigits)
    /\ LET s == Head(todo)
           id == get_id(uid + 1)
       IN  /\ uid' = uid + 1
           /\ infoboxes' = Append(infoboxes, [id |-> id, data |-> infobox_data(parsed[s])])
           /\ parsed' = Replace(parsed, s, s, <<Text(MarkerText(INFOBOX, id))>>)
           /\ todo' = Tail(todo)
    /\ UNCHANGED <<pc, tables, bullet_groups, ex_raw_text>>
    /\ ExUnchanged

\* l.35: `parsed.tables`, read when the infobox loop is over
ExTables ==
    /\ pc = "ex_infoboxes"
    /\ todo = <<>>
    /\ pc' = "ex_tables"
    /\ todo' = Positions(parsed, {k \in 1..Len(parsed) : parsed[k].t = "table_open"})
    /\ UNCHANGED <<parsed, infoboxes, tables, bullet_groups, ex_raw_text, uid>>
    /\ ExUnchanged

\* l.35-43: one turn of `for t in parsed.tables`
ExTable ==
    /\ ExBusy("ex_tables")
    /\ uid < Len(HexDigits)
    /\ LET s == Head(todo)
           e == SpanEnd(parsed, s, "table_close")
           id == get_id(uid + 1)
       IN  /\ uid' = uid + 1
           /\ tables' = Append(tables, [id |-> id, content |-> Render(SubSeq(parsed, s, e))])
           /\ parsed' = Replace(parsed, s, e, <<Text(MarkerText(TABLE, id))>>)
           /\ todo' = Shifted(Tail(todo), e, e - s)
    /\ UNCHANGED <<pc, infoboxes, bullet_groups, ex_raw_text>>
    /\ ExUnchanged

\* l.48: `parsed.get_lists()`, read when the table loop is over
ExLists ==
    /\ pc = "ex_tables"
    /\ todo = <<>>
    /\ pc' = "ex_lists"
    /\ todo' = get_lists(parsed)
    /\ UNCHANGED <<parsed, infoboxes, tables, bullet_groups, ex_raw_text, uid>>
    /\ ExUnchanged

\* l.50-65: a '*' list with at least one non-empty item
ExBulletList ==
    /\ ExBusy("ex_lists")
    /\ uid < Len(HexDigits)
    /\ LET s == Head(todo)
           e == SpanEnd(parsed, s, "list_close")
           id == get_id(uid + 1)
       IN  /\ is_bullet_list(parsed, s, e)
           /\ current_group(parsed, s, e) # <<>>
           /\ uid' = uid + 1
           /\ bullet_groups' = Append(bullet_groups,
                                      [id |-> id, items |-> current_group(parsed, s, e)])
           /\ parsed' = Replace(parsed, s, e, <<Text(MarkerText(LIST, id))>>)
           /\ todo' = Shifted(Tail(todo), e, e - s)
    /\ UNCHANGED <<pc, infoboxes, tables, ex_raw_text>>
    /\ ExUnchanged

\* l.50-58: a '*' list whose items are all empty is left where it is
ExEmptyBulletList ==
    /\ ExBusy("ex_lists")
    /\ LET s == Head(todo)
           e == SpanEnd(parsed, s, "list_close")
       IN  /\ is_bullet_list(parsed, s, e)
           /\ current_group(parsed, s, e) = <<>>
           /\ todo' = Tail(todo)
    /\ UNCHANGED <<pc, parsed, infoboxes, tables, bullet_groups, ex_raw_text, uid>>
    /\ ExUnchanged

\* l.66-69: any other list is removed
ExOtherList ==
    /\ ExBusy("ex_lists")
    /\ LET s == Head(todo)
           e == SpanEnd(parsed, s, "list_close")
       IN  /\ ~is_bullet_list(parsed, s, e)
           /\ parsed' = Replace(parsed, s, e, <<>>)
           /\ todo' = Shifted(Tail(todo), e, e - s + 1)
    /\ UNCHANGED <<pc, infoboxes, tables, bullet_groups, ex_raw_text, uid>>
    /\ ExUnchanged

\* l.71-87: raw_text = parsed.plain_text().strip(), and return
ExReturn ==
    /\ pc = "ex_lists"
    /\ todo = <<>>
    /\ pc' = "ex_done"
    /\ ex_raw_text' = Strip(plain_text(parsed))
    /\ UNCHANGED <<parsed, todo, infoboxes, tables, bullet_groups, uid>>
    /\ ExUnchanged

ExNext ==
    \/ ExParse \/ ExInfobox \/ ExTables \/ ExTable \/ ExLists
    \/ ExBulletList \/ ExEmptyBulletList \/ ExOtherList \/ ExReturn

(* Inputs of parse_wiki_markup: up to MaxNodes blocks drawn from BlockVocab, *)
(* a blank line between two blocks                                           *)

N_infobox == <<"I", "n", "f", "o", "b", "o", "x", " ", "p", NL>>
N_shout   == <<" ", "I", "N", "F", "O", "B", "O", "X">>
N_cite    == <<"c", "i", "t", "e">>
A_name    == Argument(<<" ", "n", " ">>, <<" ", "J", " ">>)
A_job     == Argument(<<"o">>, <<"E", NL>>)
A_again   == Argument(<<"n">>, <<"K">>)

T_infobox == Template(N_infobox, <<A_name, A_job>>)
T_shout   == Template(N_shout, <<A_name, A_again>>)
T_cite    == Template(N_cite, <<A_job>>)

B_text           == <<Text(<<"H", "i">>)>>
B_space          == <<Text(<<" ">>)>>
B_infobox        == <<T_infobox>>
B_shout          == <<T_shout>>
B_cite           == <<T_cite>>
B_table          == <<TableOpen, Text(<<"|", " ", "c">>), TableClose>>
B_table_infobox  == <<TableOpen, Text(<<"|", " ">>), T_infobox, TableClose>>
B_table_list     == <<TableOpen, Text(<<"|", NL>>),
                      ListOpen("*"), ListItem("*"), Text(<<" ", "a">>), ListClose,
                      TableClose>>
B_bullets        == <<ListOpen("*"), ListItem("*"), Text(<<" ", "a", NL>>),
                      ListItem("*"), Text(<<" ", "b">>), ListClose>>
B_numbered       == <<ListOpen("#"), ListItem("#"), Text(<<" ", "a">>), ListClose>>
B_bullets_cite   == <<ListOpen("*"), ListItem("*"), Text(<<" ">>), T_cite, ListClose>>
B_bullets_infobox == <<ListOpen("*"), ListItem("*"), Text(<<" ">>), T_infobox, ListClose>>
B_bullets_mixed  == <<ListOpen("*"), ListItem("*"), Text(<<" ">>), T_cite, Text(<<NL>>),
                      ListItem("*"), Text(<<" ", "b">>), ListClose>>

BlockVocab == {B_text, B_space, B_infobox, B_shout, B_cite, B_table, B_table_infobox,
               B_table_list, B_bullets, B_numbered, B_bullets_cite, B_bullets_infobox,
               B_bullets_mixed}

BlockGap == <<Text(<<NL, NL>>)>>

RECURSIVE JoinBlocks(_)
JoinBlocks(bs) ==
    IF bs = <<>> THEN <<>>
    ELSE IF Len(bs) = 1 THEN Head(bs)
    ELSE Head(bs) \o BlockGap \o JoinBlocks(Tail(bs))

Documents == UNION {{JoinBlocks(bs) : bs \in [1..n -> BlockVocab]} : n \in 0..MaxNodes}

ExInit ==
    /\ pc = "ex_call"
    /\ content = <<>>
    /\ ParseIdle
    /\ CtxIdle
    /\ wiki_text \in Documents
    /\ parsed = <<>> /\ todo = <<>>
    /\ infoboxes = <<>> /\ tables = <<>> /\ bullet_groups = <<>>
    /\ ex_raw_text = <<>> /\ uid = 0
    /\ MoreIdle

SpecExtract == ExInit /\ [][ExNext]_vars

----------------------------------------------------------------------------
(* WikiLinkedList.get_context, called on the list parse_string returned *)

\* a variant of insert_front that adds at the end
insert_back(lst, c) == Append(lst, c)

\* context['before'].insert(0, current)
insert_front(lst, c) == <<c>> \o lst

\* lines 74-81: the call, up to the first loop
GcCall ==
    /\ pc = "done"
    /\ \E c \in 1..Len(heap), b \in 0..MaxCount, a \in 0..MaxCount :
          /\ gc_chunk' = c /\ gc_before' = b /\ gc_after' = a
          /\ context' = [before |-> <<>>, current |-> c, after |-> <<>>]
          /\ current' = heap[c].prev
          /\ gc_left' = b
    /\ pc' = "gc_before"
    /\ UNCHANGED <<parseVars, ctxVars, exVars, navRest>>

\* lines 82-85: one turn of `for _ in range(before)`
GcBeforeStep ==
    /\ pc = "gc_before" /\ gc_left > 0
    /\ IF current # None
       THEN /\ context' = [context EXCEPT !.before = insert_front(@, current)]
            /\ current' = heap[current].prev
       ELSE UNCHANGED <<context, current>>
    /\ gc_left' = gc_left - 1
    /\ UNCHANGED <<pc, gc_chunk, gc_before, gc_after, parseVars, ctxVars, exVars, navRest>>

\* line 88: between the loops
GcAfterStart ==
    /\ pc = "gc_before" /\ gc_left = 0
    /\ current' = heap[gc_chunk].next
    /\ gc_left' = gc_after
    /\ pc' = "gc_after"
    /\ UNCHANGED <<gc_chunk, gc_before, gc_after, context, parseVars, ctxVars, exVars, navRest>>

\* lines 89-92: one turn of `for _ in range(after)`
GcAfterStep ==
    /\ pc = "gc_after" /\ gc_left > 0
    /\ IF current # None
       THEN /\ context' = [context EXCEPT !.after = Append(@, current)]
            /\ current' = heap[current].next
       ELSE UNCHANGED <<context, current>>
    /\ gc_left' = gc_left - 1
    /\ UNCHANGED <<pc, gc_chunk, gc_before, gc_after, parseVars, ctxVars, exVars, navRest>>

\* line 94
GcReturn ==
    /\ pc = "gc_after" /\ gc_left = 0
    /\ pc' = "gc_done"
    /\ UNCHANGED <<navVars, parseVars, ctxVars, exVars, navRest>>

GcNext == GcCall \/ GcBeforeStep \/ GcAfterStart \/ GcAfterStep \/ GcReturn

(* Inputs: documents of up to MaxLines lines, one line of each construct *)

NavVocab == {L_blank, L_heading, L_infobox, L_topen, L_item, L_rule, L_text}

NavInit ==
    /\ pc = "start"
    /\ content \in {Join(ls, NL) : ls \in UNION {[1..n -> NavVocab] : n \in 1..MaxLines}}
    /\ ParseIdle
    /\ CtxIdle
    /\ ExIdle
    /\ MoreIdle

NavNext == ParseNext \/ GcNext

SpecNav == NavInit /\ [][NavNext]_vars

----------------------------------------------------------------------------
(* WikiTableExtractor.process_page_html (src/engine/extractor.py)          *)
(* A page is the list of tables pd.read_html finds in it; a response of    *)
(* llm_client is its text together with what json.loads makes of it.       *)

\* a Python value met in a decoded response: its type, its truth value and,
\* for a str, its text
PyValue(type, truthy, text) == [type |-> type, truthy |-> truthy, text |-> text]

PyNone  == PyValue("NoneType", FALSE, "")
PyTrue  == PyValue("bool", TRUE, "")
PyFalse == PyValue("bool", FALSE, "")
PyStr(text) == PyValue("str", text # "", text)
\* a non-empty list
PyList  == PyValue("list", TRUE, "")
PyDict(nonempty) == PyValue("dict", nonempty, "")
\* a key the dict does not hold
Absent  == PyValue("absent", FALSE, "")

\* a response: `parseable` is whether json.loads accepts the text, `top` the
\* decoded value, and the other fields the entries of the decoded object and
\* of its "mappings" object
Response(text, parseable, top, is_people_table, mappings, person_name, location, year, valid) ==
    [text |-> text, parseable |-> parseable, top |-> top,
     is_people_table |-> is_people_table, mappings |-> mappings,
     person_name |-> person_name, location |-> location, year |-> year,
     valid |-> valid]

NotJson(text) ==
    Response(text, FALSE, Absent, Absent, Absent, Absent, Absent, Absent, Absent)
NotObject(text, top) ==
    Response(text, TRUE, top, Absent, Absent, Absent, Absent, Absent, Absent)
Analysis(text, is_people_table, mappings, person_name, location, year) ==
    Response(text, TRUE, PyDict(TRUE), is_people_table, mappings, person_name,
             location, year, Absent)
Verdict(text, valid) ==
    Response(text, TRUE, PyDict(TRUE), Absent, Absent, Absent, Absent, Absent, valid)

R_garbage == NotJson("Sure! Here is the JSON")
R_empty   == NotJson("")
R_null    == NotObject("null", PyNone)
R_true    == NotObject("true", PyTrue)
R_array   == NotObject("[1]", PyList)
R_object_empty == NotObject("{}", PyDict(FALSE))
R_not_people ==
    Analysis("{\"is_people_table\": false, \"mappings\": {\"person_name\": \"Name\"}}",
             PyFalse, PyDict(TRUE), PyStr("Name"), Absent, Absent)
R_no_mappings ==
    Analysis("{\"is_people_table\": true}", PyTrue, Absent, Absent, Absent, Absent)
R_null_mappings ==
    Analysis("{\"is_people_table\": true, \"mappings\": null}",
             PyTrue, PyNone, Absent, Absent, Absent)
R_null_name ==
    Analysis("{\"is_people_table\": true, \"mappings\": {\"person_name\": null}}",
             PyTrue, PyDict(TRUE), PyNone, Absent, Absent)
R_array_name ==
    Analysis("{\"is_people_table\": true, \"mappings\": {\"person_name\": [\"Name\"]}}",
             PyTrue, PyDict(TRUE), PyList, Absent, Absent)
R_name_only ==
    Analysis("{\"is_people_table\": true, \"mappings\": {\"person_name\": \"Name\"}}",
             PyTrue, PyDict(TRUE), PyStr("Name"), Absent, Absent)
R_all_three ==
    Analysis("{\"is_people_table\": true, \"mappings\": {\"person_name\": \"Name\", \"location\": \"City\", \"year\": \"1900\"}}",
             PyTrue, PyDict(TRUE), PyStr("Name"), PyStr("City"), PyStr("1900"))
R_array_year ==
    Analysis("{\"is_people_table\": true, \"mappings\": {\"person_name\": \"Name\", \"year\": [1900]}}",
             PyTrue, PyDict(TRUE), PyStr("Name"), Absent, PyList)
R_text_flag ==
    Analysis("{\"is_people_table\": \"false\", \"mappings\": {\"person_name\": \"Name\"}}",
             PyStr("false"), PyDict(TRUE), PyStr("Name"), Absent, Absent)

AnalysisResponses ==
    {R_garbage, R_empty, R_null, R_true, R_array, R_object_empty, R_not_people,
     R_no_mappings, R_null_mappings, R_null_name, R_array_name, R_name_only,
     R_all_three, R_array_year, R_text_flag}

V_garbage  == NotJson("yes")
V_null     == NotObject("null", PyNone)
V_array    == NotObject("[true]", PyList)
V_no_field == NotObject("{}", PyDict(FALSE))
V_valid    == Verdict("{\"valid\": true}", PyTrue)
V_invalid  == Verdict("{\"valid\": false}", PyFalse)
V_text     == Verdict("{\"valid\": \"false\"}", PyStr("false"))

VerificationResponses ==
    {V_garbage, V_null, V_array, V_no_field, V_valid, V_invalid, V_text}

\* the tables of a page: column labels and number of rows
Frames ==
    {[columns |-> c, rows |-> n] : c \in {<<"Name", "City">>, <<"City">>}, n \in 0..MaxRows}

Pages == UNION {[1..n -> Frames] : n \in 0..MaxTables}

\* d.get(key, default) on the decoded entries
dict_get(d, key, default) == IF d[key] = Absent THEN default ELSE d[key]

\* lines 43-47: json.loads(response), None on json.JSONDecodeError
analyze_table_metadata(r) == IF r.parseable THEN r.top ELSE PyNone

\* lines 58-62: json.loads(response).get("valid", False), False on any exception
verify_extraction(r) ==
    IF r.parseable /\ r.top.type = "dict" THEN dict_get(r, "valid", PyFalse) ELSE PyFalse

\* only a dict has .get
has_get(v) == v.type = "dict"

\* hash(v) succeeds
hashable(v) == v.type \notin {"list", "dict"}

\* v in df.columns, for a hashable v
in_columns(v, df) == v.type = "str" /\ \E k \in 1..Len(df.columns) : df.columns[k] = v.text

\* line 88: analysis.get("mappings", {})
mappings_of(r) == dict_get(r, "mappings", PyDict(FALSE))

\* lines 89-91: mappings.get(...)
col_name(r) == dict_get(r, "person_name", PyNone)
col_loc(r)  == dict_get(r, "location", PyNone)
col_year(r) == dict_get(r, "year", PyNone)

\* lines 83-116: where the loop body goes for table df when the collaborator
\* answers r to the metadata question
Branch(df, r) ==
    LET analysis == analyze_table_metadata(r)
    IN  IF ~analysis.truthy THEN "rejected"
        ELSE IF ~has_get(analysis) THEN "AttributeError"
        ELSE IF ~dict_get(r, "is_people_table", PyNone).truthy THEN "rejected"
        ELSE IF ~has_get(mappings_of(r)) THEN "AttributeError"
        ELSE IF ~col_name(r).truthy THEN "no_name"
        ELSE IF ~hashable(col_name(r)) THEN "TypeError"
        ELSE IF ~in_columns(col_name(r), df) THEN "no_column"
        ELSE IF ~hashable(col_loc(r)) \/ ~hashable(col_year(r)) THEN "TypeError"
        ELSE IF df.rows = 0 THEN "empty"
        ELSE "verify"

\* df[col] at row k when col is a column of df, else the constant col
Series(t, df, col, k) ==
    IF in_columns(col, df) THEN <<t, k, col.text>> ELSE <<0, 0, col.text>>

\* lines 97-113: temp_df for table number t
temp_df(t, df, r) ==
    [k \in 1..df.rows |->
        [table |-> t,
         person_name |-> Series(t, df, col_name(r), k),
         location    |-> Series(t, df, col_loc(r), k),
         year        |-> Series(t, df, col_year(r), k)]]

\* line 119: `if self.verify_extraction(sample)`
verified(r) == verify_extraction(r).truthy

DataFrame(columns, rows) == [columns |-> columns, rows |-> rows]

PeopleColumns == <<"person_name", "location", "year">>

\* pd.concat(frames, ignore_index=True)
RECURSIVE concat(_)
concat(frames) ==
    IF frames = <<>> THEN <<>> ELSE Head(frames) \o concat(Tail(frames))

PipeUnchanged == UNCHANGED <<parseVars, ctxVars, exVars, pipeRest>>

\* lines 69-73: read_html finds no table and raises ValueError
PpReadFails ==
    /\ pc = "pp_start" /\ page = <<>>
    /\ returned' = <<DataFrame(<<>>, <<>>)>>
    /\ pc' = "pp_done"
    /\ UNCHANGED <<page, pp_i, response, verification, all_extracted_people,
                   accepted_under, raised>>
    /\ PipeUnchanged

\* lines 69-77
PpRead ==
    /\ pc = "pp_start" /\ page # <<>>
    /\ pp_i' = 1
    /\ pc' = "pp_loop"
    /\ UNCHANGED <<page, response, verification, all_extracted_people,
                   accepted_under, returned, raised>>
    /\ PipeUnchanged

PpAtTable == pc = "pp_loop" /\ pp_i <= Len(page)

\* the loop body leaves table pp_i without a verification question
PpSkip(r) ==
    /\ response' = <<r>>
    /\ verification' = <<>>
    /\ pp_i' = pp_i + 1
    /\ UNCHANGED <<pc, page, all_extracted_people, accepted_under, returned, raised>>
    /\ PipeUnchanged

\* lines 83-86: `continue` on a falsy analysis or is_people_table
PpRejected ==
    /\ PpAtTable
    /\ \E r \in AnalysisResponses :
          /\ Branch(page[pp_i], r) = "rejected"
          /\ PpSkip(r)

\* lines 88-94: `continue` on a falsy person_name
PpNoName ==
    /\ PpAtTable
    /\ \E r \in AnalysisResponses :
          /\ Branch(page[pp_i], r) = "no_name"
          /\ PpSkip(r)

\* lines 100-103: `continue` when person_name is not a column
PpNoColumn ==
    /\ PpAtTable
    /\ \E r \in AnalysisResponses :
          /\ Branch(page[pp_i], r) = "no_column"
          /\ PpSkip(r)

\* lines 105-116: temp_df has no row, nothing is asked or appended
PpEmpty ==
    /\ PpAtTable
    /\ \E r \in AnalysisResponses :
          /\ Branch(page[pp_i], r) = "empty"
          /\ PpSkip(r)

\* lines 116-120
PpVerify ==
    /\ PpAtTable
    /\ \E r \in AnalysisResponses, v \in VerificationResponses :
          /\ Branch(page[pp_i], r) = "verify"
          /\ response' = <<r>>
          /\ verification' = <<v>>
          /\ IF verified(v)
             THEN /\ all_extracted_people' =
                        Append(all_extracted_people, temp_df(pp_i, page[pp_i], r))
                  /\ accepted_under' =
                        Append(accepted_under, [table |-> pp_i, analysis |-> r, verification |-> v])
             ELSE UNCHANGED <<all_extracted_people, accepted_under>>
    /\ pp_i' = pp_i + 1
    /\ UNCHANGED <<pc, page, returned, raised>>
    /\ PipeUnchanged

\* lines 85, 89, 100, 105, 110: .get on a value that is not a dict, or
\* `in df.columns` on an unhashable value; nothing catches the exception
PpRaise ==
    /\ PpAtTable
    /\ \E r \in AnalysisResponses :
          /\ Branch(page[pp_i], r) \in {"AttributeError", "TypeError"}
          /\ response' = <<r>>
          /\ raised' = Branch(page[pp_i], r)
    /\ verification' = <<>>
    /\ pc' = "pp_raised"
    /\ UNCHANGED <<page, pp_i, all_extracted_people, accepted_under, returned>>
    /\ PipeUnchanged

\* lines 122-124
PpReturn ==
    /\ pc = "pp_loop" /\ pp_i > Len(page)
    /\ returned' = <<DataFrame(PeopleColumns, concat(all_extracted_people))>>
    /\ pc' = "pp_done"
    /\ UNCHANGED <<page, pp_i, response, verification, all_extracted_people,
                   accepted_under, raised>>
    /\ PipeUnchanged

PipeNext ==
    \/ PpReadFails
    \/ PpRead
    \/ PpRejected
    \/ PpNoName
    \/ PpNoColumn
    \/ PpEmpty
    \/ PpVerify
    \/ PpRaise
    \/ PpReturn

PipeInit ==
    /\ pc = "pp_start"
    /\ page \in Pages
    /\ pp_i = 0 /\ response = <<>> /\ verification = <<>>
    /\ all_extracted_people = <<>> /\ accepted_under = <<>>
    /\ returned = <<>> /\ raised = ""
    /\ content = <<>>
    /\ ParseIdle
    /\ CtxIdle
    /\ ExIdle
    /\ NavIdle
    /\ RunIdle

SpecPipeline == PipeInit /\ [][PipeNext]_vars

----------------------------------------------------------------------------
(* Two calls of parse_string on one WikiMarkupParser, interleaved.  The     *)
(* call that runs has its locals (content, lines, i, linked_list) in the    *)
(* variables of parse_string; the locals of the call that waits are kept in *)
(* `other`.  ContentChunk objects of both calls live in the one heap; the   *)
(* parser's only attribute, self.patterns, is never written.               *)

\* a variant of Switch for a parser that keeps the list in an attribute
\* shared by its calls
Switch_list_shared ==
    /\ pc \in {"start", "scan", "done"}
    /\ other' = Locals(pc, content, lines, i, head, tail, size, all_chunks, steps)
    /\ pc' = other.pc /\ content' = other.content /\ lines' = other.lines
    /\ i' = other.i /\ steps' = other.steps
    /\ UNCHANGED <<head, tail, size, all_chunks>>
    /\ UNCHANGED <<heap, spans, ctxVars, exVars, navVars, pipeVars>>

\* lines 135-144: the locals belong to the call; the scheduler suspends the
\* running call and resumes the other
Switch ==
    /\ pc \in {"start", "scan", "done"}
    /\ other' = Locals(pc, content, lines, i, head, tail, size, all_chunks, steps)
    /\ pc' = other.pc /\ content' = other.content /\ lines' = other.lines
    /\ i' = other.i /\ steps' = other.steps
    /\ head' = other.head /\ tail' = other.tail /\ size' = other.size
    /\ all_chunks' = other.all_chunks
    /\ UNCHANGED <<heap, spans, ctxVars, exVars, navVars, pipeVars>>

\* lines 143-228 as a function: the chunks parse_string makes of lines ls from
\* index k on, in order
RECURSIVE parse_chunks(_, _)
parse_chunks(ls, k) ==
    IF k >= Len(ls) THEN <<>>
    ELSE LET ln == At(ls, k)
         IN  IF heading_match(ln)
             THEN <<ContentChunk("heading", Strip(heading_text(ln)),
                                 heading_level(ln), [raw |-> ln])>>
                  \o parse_chunks(ls, k + 1)
             ELSE IF infobox_start(ln)
             THEN LET x == extract_infobox(ls, k)
                  IN  <<ContentChunk("infobox", x.content, NoLevel,
                          [infobox_type |-> x.parsed_data.type,
                           fields       |-> x.parsed_data.fields,
                           field_count  |-> Cardinality(DOMAIN x.parsed_data.fields)])>>
                      \o parse_chunks(ls, x.end_idx + 1)
             ELSE IF table_start(ln)
             THEN LET x == extract_table(ls, k)
                  IN  <<ContentChunk("table", x.content, NoLevel,
                          [row_count |-> Count(x.content, <<"|", "-">>)])>>
                      \o parse_chunks(ls, x.end_idx + 1)
             ELSE IF list_item(ln)
             THEN LET x == extract_list(ls, k)
                  IN  <<ContentChunk("list", x.content, Len(list_marker(ln)),
                          [list_type |-> list_marker(ln)[1]])>>
                      \o parse_chunks(ls, x.end_idx + 1)
             ELSE IF horizontal_rule(ln)
             THEN <<ContentChunk("horizontal_rule", <<"-", "-", "-", "-">>,
                                 NoLevel, <<>>)>>
                  \o parse_chunks(ls, k + 1)
             ELSE IF blank(ln)
             THEN parse_chunks(ls, k + 1)
             ELSE LET x == extract_paragraph(ls, k)
                  IN  (IF Strip(x.content) # <<>>
                       THEN <<ContentChunk("paragraph", x.content, NoLevel, <<>>)>>
                       ELSE <<>>)
                      \o parse_chunks(ls, x.end_idx + 1)

\* the documents of the second call
OtherVocab == {L_heading, L_text}

RunsInit ==
    /\ pc = "start"
    /\ content \in {Join(ls, NL) : ls \in UNION {[1..n -> NavVocab] : n \in 1..MaxRunLines}}
    /\ ParseIdle
    /\ CtxIdle
    /\ ExIdle
    /\ NavIdle
    /\ PipeIdle
    /\ \E c \in {Join(ls, NL) : ls \in UNION {[1..n -> OtherVocab] : n \in 1..MaxRunLines}} :
          other = Locals("start", c, <<>>, 0, None, None, 0, <<>>, <<>>)

RunsNext == ParseNext \/ Switch

SpecRuns == RunsInit /\ [][RunsNext]_vars

----------------------------------------------------------------------------
(* WikiLinkedList used on its own: two lists, `self` in head, tail, size   *)
(* and all_chunks and a second one kept in `other`, and append called with *)
(* new chunks and with chunks that exist already.                          *)

ChunkKinds == {"heading", "paragraph"}

\* WikiLinkedList(): lines 37-41
EmptyList == Locals("ll", <<>>, <<>>, 0, None, None, 0, <<>>, <<>>)

ListUnchanged == UNCHANGED <<pc, content, lines, i, spans, steps, ctxVars, exVars,
                             navVars, pipeVars>>

\* self.append(ContentChunk(kind, ...)) with a chunk created for the call
LlAppendNew ==
    /\ pc = "ll"
    /\ Len(heap) < MaxChunks /\ size < MaxAppends
    /\ \E kind \in ChunkKinds :
          append(Append(heap, ContentChunk(kind, <<>>, NoLevel, <<>>)), Len(heap) + 1)
    /\ UNCHANGED other
    /\ ListUnchanged

\* self.append(chunk) with a chunk that exists: one of this list, of the other
\* list, or of both
LlAppendAgain ==
    /\ pc = "ll"
    /\ size < MaxAppends
    /\ \E chunk \in 1..Len(heap) : append(heap, chunk)
    /\ UNCHANGED other
    /\ ListUnchanged

\* the caller turns to its other list
LlOtherList ==
    /\ pc = "ll"
    /\ other' = [other EXCEPT !.head = head, !.tail = tail, !.size = size,
                              !.all_chunks = all_chunks]
    /\ head' = other.head /\ tail' = other.tail /\ size' = other.size
    /\ all_chunks' = other.all_chunks
    /\ UNCHANGED heap
    /\ ListUnchanged

ListNext == LlAppendNew \/ LlAppendAgain \/ LlOtherList

ListInit ==
    /\ pc = "ll"
    /\ content = <<>>
    /\ ParseIdle
    /\ CtxIdle
    /\ ExIdle
    /\ NavIdle
    /\ PipeIdle
    /\ other = EmptyList

SpecList == ListInit /\ [][ListNext]_vars

\* to_list(): line 98
to_list == all_chunks

\* __len__: line 108
len == size

\* get_chunk_before / get_chunk_after: lines 57-63
get_chunk_before(chunk) == heap[chunk].prev
get_chunk_after(chunk) == heap[chunk].next

\* find_chunks_by_type: line 67
find_chunks_by_type(kind) ==
    SelectSeq(all_chunks, LAMBDA c : heap[c].chunk_type = kind)

----------------------------------------------------------------------------
(* Operators used to state the properties *)

Ids == 1..Len(heap)

\* the chunks met following next from c (at most fuel of them)
RECURSIVE WalkNext(_, _)
WalkNext(c, fuel) ==
    IF c = None \/ fuel = 0 THEN <<>> ELSE <<c>> \o WalkNext(heap[c].next, fuel - 1)

\* the chunks met following prev from c (at most fuel of them)
RECURSIVE WalkPrev(_, _)
WalkPrev(c, fuel) ==
    IF c = None \/ fuel = 0 THEN <<>> ELSE <<c>> \o WalkPrev(heap[c].prev, fuel - 1)

\* the input lines first..last (0-based, inclusive)
SpanLines(first, last) == Slice(lines, first, last + 1)

SpanText(c) == Join(SpanLines(spans[c][1], spans[c][2]), NL)

RECURSIVE Concat(_)
Concat(ss) == IF ss = <<>> THEN <<>> ELSE Head(ss) \o Concat(Tail(ss))

NonBlank(ls) == SelectSeq(ls, LAMBDA l : ~blank(l))

Returned == pc = "done"

----------------------------------------------------------------------------
\* C1: the list built by parse_string has mutually consistent neighbour links
\* (a.next is b iff b.prev is a), exactly one head (prev = None) and one tail
\* (next = None) unless it is empty, and the walk forward from head visits the
\* same chunks as the walk backward from tail, in reverse order.
C1_ChainConsistent ==
    LET n   == Len(heap)
        fwd == WalkNext(head, n + 1)
        bwd == WalkPrev(tail, n + 1)
    IN  /\ \A a, b \in Ids : (heap[a].next = b) <=> (heap[b].prev = a)
        /\ IF n = 0
           THEN head = None /\ tail = None
           ELSE /\ {c \in Ids : heap[c].prev = None} = {head}
                /\ {c \in Ids : heap[c].next = None} = {tail}
        /\ Len(fwd) = n /\ Len(bwd) = n
        /\ \A k \in 1..n : fwd[k] = bwd[n + 1 - k]
        /\ {fwd[k] : k \in 1..n} = Ids

C1_Witness ==
    Returned /\ size >= 3 /\ \E c \in Ids : heap[c].prev # None /\ heap[c].next # None

----------------------------------------------------------------------------
\* what a chunk stands for in a reconstruction: a heading keeps its line in
\* metadata['raw'], every other kind only has its content
Rendered(c) ==
    IF heap[c].chunk_type = "heading" THEN heap[c].metadata.raw ELSE heap[c].content

\* C3 as stated: every chunk's content (headings and horizontal rules
\* included) is the verbatim text of the lines it was extracted from, and the
\* contents in sequence order reproduce the input's non-blank lines.
C3_Original_ContentVerbatim ==
    Returned =>
        /\ \A c \in Ids : heap[c].content = SpanText(c)
        /\ NonBlank(Concat([k \in 1..Len(all_chunks) |->
                               Split(heap[all_chunks[k]].content, NL)]))
             = NonBlank(lines)

\* C3 (amended): the content of an infobox, table, list or paragraph chunk is
\* the verbatim text of its lines; a heading chunk's content is its title (the
\* line without its N delimiters on either side and the whitespace around the
\* title) and its verbatim line is metadata['raw']; a horizontal rule's content
\* is '----' whatever the number of dashes.  Taking raw for headings, the
\* chunks in sequence order reproduce the non-blank input lines, each rule line
\* read as '----'.
C3_ContentOfSpan ==
    Returned =>
        /\ \A c \in Ids :
              LET ch == heap[c]
                  ln == At(lines, spans[c][1])
                  r  == RStrip(ln)
                  n  == ch.level
                  t  == ch.content
              IN  CASE ch.chunk_type \in {"infobox", "table", "list", "paragraph"} ->
                          t = SpanText(c)
                    [] ch.chunk_type = "heading" ->
                          /\ ch.metadata.raw = ln /\ spans[c][1] = spans[c][2]
                          /\ t = Strip(t)
                          /\ \E a \in 0..Len(r) :
                                /\ AllIn(Slice(r, 0, n), {"="})
                                /\ AllIn(Slice(r, n, n + a), Whitespace)
                                /\ Slice(r, n + a, n + a + Len(t)) = t
                                /\ AllIn(Slice(r, n + a + Len(t), Len(r) - n), Whitespace)
                                /\ AllIn(Slice(r, Len(r) - n, Len(r)), {"="})
                                /\ Len(r) >= 2 * n + a + Len(t)
                    [] ch.chunk_type = "horizontal_rule" ->
                          /\ t = <<"-", "-", "-", "-">>
                          /\ AllIn(r, {"-"}) /\ Len(r) >= 4
                          /\ spans[c][1] = spans[c][2]
        /\ NonBlank(Concat([k \in 1..Len(all_chunks) |->
                               Split(Rendered(all_chunks[k]), NL)]))
             = NonBlank(Concat([k \in 1..Len(all_chunks) |->
                   IF heap[all_chunks[k]].chunk_type = "horizontal_rule"
                   THEN << <<"-", "-", "-", "-">> >>
                   ELSE SpanLines(spans[all_chunks[k]][1], spans[all_chunks[k]][2])]))
        /\ \A k \in 0..(Len(lines) - 1) :
              ~blank(At(lines, k)) =>
                  \E c \in Ids : spans[c][1] <= k /\ k <= spans[c][2]

C3_Witness ==
    /\ Returned
    /\ \E c \in Ids : heap[c].chunk_type = "heading" /\ heap[c].content # SpanText(c)
    /\ \E c \in Ids : heap[c].chunk_type = "horizontal_rule" /\ heap[c].content # SpanText(c)
    /\ \E c \in Ids : heap[c].chunk_type = "paragraph"

----------------------------------------------------------------------------
\* C4: parse_string terminates without raising: every loop iteration strictly
\* increases the scan index; every block extractor returns an end index not
\* before its start line and the scan resumes just after it; so there are at
\* most as many iterations as lines, the index never passes the number of
\* lines by more than one, and the list is returned exactly when the index
\* has reached or passed the number of lines.
C4_ScanTerminates ==
    /\ \A k \in 1..Len(steps) :
          /\ steps[k].end_idx >= steps[k].start
          /\ steps[k].resume = steps[k].end_idx + 1
          /\ steps[k].resume > steps[k].start
          /\ steps[k].start < Len(lines)
          /\ IF k < Len(steps) THEN steps[k + 1].start = steps[k].resume
                               ELSE i = steps[k].resume
    /\ steps # <<>> => steps[1].start = 0
    /\ Len(steps) <= Len(lines)
    /\ pc = "scan" => /\ i <= Len(lines) + 1
                      /\ steps = <<>> => i = 0
    /\ Returned => i >= Len(lines) /\ Len(lines) >= 1

C4_Witness ==
    /\ Returned
    /\ i > Len(lines)
    /\ \E k \in 1..Len(steps) : steps[k].kind = "table" /\ steps[k].end_idx = Len(lines)
    /\ \E k \in 1..Len(steps) : steps[k].kind = "infobox"

----------------------------------------------------------------------------
\* (count of '{{') - (count of '}}') summed over the input lines first..j
RECURSIVE DepthAfter(_, _)
DepthAfter(first, j) ==
    IF j < first THEN 0
    ELSE DepthAfter(first, j - 1)
         + Count(At(lines, j), <<"{", "{">>) - Count(At(lines, j), <<"}", "}">>)

InfoboxChunks == {c \in Ids : heap[c].chunk_type = "infobox"}

\* C5 as stated: an infobox span ends with the first line after which the
\* depth is zero, and extends to the last input line if the depth is never zero.
C5_Original_DepthZero ==
    Returned =>
        \A c \in InfoboxChunks :
            LET f == spans[c][1]
                e == spans[c][2]
            IN  /\ heap[c].content = SpanText(c)
                /\ \A j \in f..(e - 1) : DepthAfter(f, j) # 0
                /\ DepthAfter(f, e) = 0 \/ e = Len(lines) - 1

\* C5 (amended): an infobox span starts at its opening line and ends with the
\* first line after which the depth is zero or below; if the depth stays
\* positive the span extends to the last line of the input.  A line that
\* closes a nested template leaves the depth positive and does not end it.
C5_InfoboxSpan ==
    Returned =>
        \A c \in InfoboxChunks :
            LET f == spans[c][1]
                e == spans[c][2]
            IN  /\ heap[c].content = SpanText(c)
                /\ \A j \in f..(e - 1) : DepthAfter(f, j) > 0
                /\ DepthAfter(f, e) <= 0 \/ e = Len(lines) - 1

C5_Witness ==
    /\ Returned
    /\ \E c \in InfoboxChunks :
          LET f == spans[c][1]
              e == spans[c][2]
          IN  /\ e = f + 2
              /\ Count(At(lines, f + 1), <<"}", "}">>) > 0
              /\ DepthAfter(f, f + 1) > 0
              /\ DepthAfter(f, e) = 0

----------------------------------------------------------------------------
\* C6: a table span runs from its '{|' line through the first later line that
\* begins with '|}' and the scan resumes on the line after it; with no such
\* line the span is all lines to the end of the input, and in both cases the
\* iteration produces exactly one table chunk.
C6_TableSpan ==
    \A k \in 1..Len(steps) :
        steps[k].kind = "table" =>
            LET s       == steps[k].start
                closers == {j \in (s + 1)..(Len(lines) - 1) :
                               StartsWith(At(lines, j), <<"|", "}">>)}
                made    == {c \in Ids : spans[c][1] = s}
            IN  /\ StartsWith(At(lines, s), <<"{", "|">>)
                /\ Cardinality(made) = 1
                /\ \A c \in made :
                      /\ heap[c].chunk_type = "table"
                      /\ IF closers # {}
                         THEN LET e == CHOOSE j \in closers : \A m \in closers : j <= m
                              IN  /\ heap[c].content = Join(SpanLines(s, e), NL)
                                  /\ steps[k].resume = e + 1
                         ELSE /\ heap[c].content = Join(SpanLines(s, Len(lines) - 1), NL)
                              /\ steps[k].resume > Len(lines) - 1

C6_Witness ==
    /\ Returned
    /\ \E k \in 1..Len(steps) :
          steps[k].kind = "table" /\ steps[k].resume < Len(lines)
    /\ \E k \in 1..Len(steps) :
          steps[k].kind = "table" /\ steps[k].resume > Len(lines)

----------------------------------------------------------------------------
(* '| name = value' read from one line alone *)

FieldLine(l) == l # <<>> /\ l[1] = "|" /\ \E k \in 1..Len(l) : l[k] = "="

LineName(l) == Strip(Slice(l, 1, FindAny(l, 0, {"="})))

LineValue(l) == Strip(Slice(l, FindAny(l, 0, {"="}) + 1, Len(l)))

\* C7 as stated: every value in an infobox chunk's fields is the trimmed
\* remainder, after the first '=', of a '| name = value' line of the span
\* with that name, and is not empty; a line whose value is empty after
\* trimming gives no entry, and no value holds text of a following line.
C7_FieldValueFromOwnLine ==
    Returned =>
        \A c \in InfoboxChunks :
            \A name \in DOMAIN heap[c].metadata.fields :
                \E j \in spans[c][1]..spans[c][2] :
                    LET l == At(lines, j)
                    IN  /\ FieldLine(l)
                        /\ LineName(l) = name
                        /\ LineValue(l) # <<>>
                        /\ LineValue(l) = heap[c].metadata.fields[name]

----------------------------------------------------------------------------
\* C8 as stated: for an infobox span with balanced double braces, field_count
\* is the number of distinct names among the span's '| name = value' lines
\* whose trimmed value is not empty.
C8_FieldCount ==
    Returned =>
        \A c \in InfoboxChunks :
            LET f == spans[c][1]
                e == spans[c][2]
            IN  DepthAfter(f, e) = 0 =>
                    heap[c].metadata.field_count =
                        Cardinality({LineName(At(lines, j)) : j \in
                            {m \in f..e : /\ FieldLine(At(lines, m))
                                          /\ LineValue(At(lines, m)) # <<>>}})

----------------------------------------------------------------------------
(* get_element_context: the markers of raw_text, read off the text itself *)

\* <<s, e>> such that raw_text[s:e] is '__', one or more capitals, '_',
\* element_id, '__'
MarkerSpans ==
    LET starts == {p \in 0..(Len(raw_text) - Len(element_id) - 6) :
                      At(raw_text, p) = "_" /\ At(raw_text, p + 1) = "_"}
    IN  {sp \in starts \X (0..Len(raw_text)) :
            LET n == sp[2] - sp[1] - Len(element_id) - 5
            IN  /\ n >= 1
                /\ \A k \in 2..(n + 1) : At(raw_text, sp[1] + k) \in Upper
                /\ At(raw_text, sp[1] + n + 2) = "_"
                /\ \A k \in 1..Len(element_id) :
                      At(raw_text, sp[1] + n + 2 + k) = element_id[k]
                /\ At(raw_text, sp[2] - 2) = "_" /\ At(raw_text, sp[2] - 1) = "_"}

\* the marker the lookup is about: the first one
FirstOf(ms) == CHOOSE sp \in ms : \A o \in ms : sp[1] <= o[1]

\* the 0-based positions of raw_text in the requested window around span sp
WindowBefore(sp) ==
    IF before THEN {k \in 0..(Len(raw_text) - 1) : k < sp[1] /\ k >= sp[1] - window_size}
    ELSE {}

WindowAfter(sp) ==
    IF after THEN {k \in 0..(Len(raw_text) - 1) : k >= sp[2] /\ k < sp[2] + window_size}
    ELSE {}

\* the characters of raw_text at a set of consecutive positions, in order
CharsAt(ps) ==
    IF ps = {} THEN <<>>
    ELSE LET lo == CHOOSE k \in ps : \A m \in ps : k <= m
         IN  [k \in 1..Cardinality(ps) |-> At(raw_text, lo + k - 1)]

\* r is w without its leading and trailing whitespace
IsTrimOf(r, w) ==
    /\ r # <<>> => r[1] \notin Whitespace /\ r[Len(r)] \notin Whitespace
    /\ \E a \in 0..Len(w) :
          /\ a + Len(r) <= Len(w)
          /\ \A k \in 1..a : w[k] \in Whitespace
          /\ \A k \in 1..Len(r) : w[a + k] = r[k]
          /\ \A k \in (a + Len(r) + 1)..Len(w) : w[k] \in Whitespace

CtxDone == pc = "ctx_done"

\* C9: get_element_context returns None if and only if raw_text holds no
\* marker '__<capitals>_<element_id>__'; with a marker present it returns a
\* string, which is the empty string when neither before nor after is
\* requested or when the requested window holds only whitespace.
C9_NoneIffNoMarker ==
    CtxDone =>
        LET ms == MarkerSpans
        IN  /\ result.kind = "None" <=> ms = {}
            /\ ms # {} =>
                  LET sp == FirstOf(ms)
                  IN  /\ result.kind = "str"
                      /\ (~before /\ ~after) => result.value = <<>>
                      /\ (\A k \in WindowBefore(sp) \cup WindowAfter(sp) :
                              At(raw_text, k) \in Whitespace) => result.value = <<>>

C9_Witness ==
    /\ CtxDone
    /\ MarkerSpans # {}
    /\ before /\ window_size > 0 /\ WindowBefore(FirstOf(MarkerSpans)) # {}
    /\ result = [kind |-> "str", value |-> <<>>]

ResultWith(b, a) == get_element_context(element_id, raw_text, window_size, b, a)

\* C11: for a present id, the result with before only, followed by the
\* result with after only, is the result with both before and after.
C11_BeforeThenAfterIsBoth ==
    (CtxDone /\ before /\ after /\ result.kind = "str") =>
        ResultWith(TRUE, FALSE).value \o ResultWith(FALSE, TRUE).value = result.value

----------------------------------------------------------------------------
(* parse_string: which rule handles a line *)

\* the rules of the loop body in the order the source tests them
RuleOrder == <<"heading", "infobox", "table", "list", "horizontal_rule", "blank", "paragraph">>

RuleMatches(rule, ln) ==
    CASE rule = "heading" -> heading_match(ln)
      [] rule = "infobox" -> infobox_start(ln)
      [] rule = "table" -> table_start(ln)
      [] rule = "list" -> list_item(ln)
      [] rule = "horizontal_rule" -> horizontal_rule(ln)
      [] rule = "blank" -> blank(ln)
      [] rule = "paragraph" -> TRUE

FirstRule(ln) ==
    RuleOrder[CHOOSE k \in 1..Len(RuleOrder) :
                /\ RuleMatches(RuleOrder[k], ln)
                /\ \A j \in 1..k - 1 : ~RuleMatches(RuleOrder[j], ln)]

\* C12: every scanned line is handled by the first rule, in the order heading,
\* infobox start, table start, list item, horizontal rule, blank line,
\* paragraph, that matches it, and no line is handled twice.
C12_FirstMatchingRule ==
    \A k \in 1..Len(steps) :
        /\ steps[k].kind = FirstRule(At(lines, steps[k].start))
        /\ \A j \in 1..k - 1 : steps[j].start < steps[k].start

C12_Witness ==
    /\ Returned
    /\ \E k \in 1..Len(steps) : steps[k].kind = "horizontal_rule"
    /\ \E k \in 1..Len(steps) : steps[k].kind = "blank"
    /\ \E k \in 1..Len(steps) : steps[k].kind = "heading"

\* ln holds '{{' followed by a name that begins with "infobox" in any case
HasInfoboxOpening(ln) ==
    \E p \in 0..Len(ln) :
        /\ Slice(ln, p, p + 2) = <<"{", "{">>
        /\ StartsWith(lower(Slice(ln, p + 2, Len(ln))), lower(INFOBOX))

\* the chunk appended by the k-th loop iteration, if it appended one
ChunkOfStep(k) == {c \in Ids : spans[c][1] = steps[k].start}

\* C13: a scanned line that is not a heading and holds '{{' followed by a
\* name beginning with "infobox" in any letter case, anywhere on the line, is
\* handled as an infobox start and gives an infobox chunk.
C13_AnyInfoboxOpening ==
    \A k \in 1..Len(steps) :
        LET ln == At(lines, steps[k].start)
        IN  (~heading_match(ln) /\ HasInfoboxOpening(ln)) =>
                /\ steps[k].kind = "infobox"
                /\ \E c \in ChunkOfStep(k) : heap[c].chunk_type = "infobox"

\* the number of '=' a line begins with, and the number it ends with once
\* trailing whitespace is dropped
LeadingEquals(ln) == FindNotIn(ln, 0, {"="})
TrailingEquals(ln) ==
    LET r == RStrip(ln)
    IN  Cardinality({n \in 1..Len(r) : \A k \in (Len(r) - n + 1)..Len(r) : r[k] = "="})

\* C14: a heading chunk comes from a line with the same number N of '=' on
\* both sides, 1 <= N <= 6, and its level is N, the number of leading '='.
C14_LevelIsDelimiterCount ==
    \A c \in Ids :
        heap[c].chunk_type = "heading" =>
            LET raw == heap[c].metadata.raw
            IN  /\ LeadingEquals(raw) = TrailingEquals(raw)
                /\ LeadingEquals(raw) \in 1..6
                /\ heap[c].level = LeadingEquals(raw)

\* a line that ends a paragraph: empty or whitespace only, heading, table
\* start, list item or horizontal rule
EndsParagraph(ln) ==
    \/ Strip(ln) = <<>>
    \/ RuleMatches("heading", ln)
    \/ RuleMatches("table", ln)
    \/ RuleMatches("list", ln)
    \/ RuleMatches("horizontal_rule", ln)

\* C15: a paragraph chunk spans the lines from its first line up to, and not
\* including, the first later line that is blank or matches heading, table
\* start, list item or horizontal rule (or up to the last line when there is
\* none); the scan resumes on that stopping line.
C15_ParagraphSpan ==
    \A k \in 1..Len(steps) :
        steps[k].kind = "paragraph" =>
            LET s     == steps[k].start
                stops == {j \in (s + 1)..(Len(lines) - 1) : EndsParagraph(At(lines, j))}
                e     == IF stops = {} THEN Len(lines) - 1
                         ELSE (CHOOSE j \in stops : \A m \in stops : j <= m) - 1
                made  == ChunkOfStep(k)
            IN  /\ Cardinality(made) = 1
                /\ \A c \in made :
                      /\ heap[c].chunk_type = "paragraph"
                      /\ heap[c].content = Join(SpanLines(s, e), NL)
                      /\ spans[c] = <<s, e>>
                /\ steps[k].resume = e + 1
                /\ \A j \in s..e : j > s => ~EndsParagraph(At(lines, j))

C15_Witness ==
    /\ Returned
    /\ \E k \in 1..Len(steps) :
          /\ steps[k].kind = "paragraph"
          /\ steps[k].end_idx = steps[k].start + 1
          /\ infobox_start(At(lines, steps[k].end_idx))
          /\ steps[k].resume < Len(lines)
          /\ k < Len(steps) /\ steps[k + 1].start = steps[k].resume

\* a line that begins with one or more of * # : ;
BeginsWithMarker(ln) == ln # <<>> /\ ln[1] \in {"*", "#", ":", ";"}

ListChunks == {c \in Ids : heap[c].chunk_type = "list"}

\* C16: a list chunk spans the maximal run of consecutive lines, from its
\* first line on, that begin with a list marker; the scan resumes on the
\* first line that does not, and no two list chunks are adjacent.
C16_ListSpan ==
    /\ \A k \in 1..Len(steps) :
          steps[k].kind = "list" =>
              LET s     == steps[k].start
                  stops == {j \in (s + 1)..(Len(lines) - 1) : ~BeginsWithMarker(At(lines, j))}
                  e     == IF stops = {} THEN Len(lines) - 1
                           ELSE (CHOOSE j \in stops : \A m \in stops : j <= m) - 1
                  made  == ChunkOfStep(k)
              IN  /\ BeginsWithMarker(At(lines, s))
                  /\ Cardinality(made) = 1
                  /\ \A c \in made :
                        /\ heap[c].chunk_type = "list"
                        /\ heap[c].content = Join(SpanLines(s, e), NL)
                        /\ spans[c] = <<s, e>>
                  /\ steps[k].resume = e + 1
    /\ \A c, d \in ListChunks : spans[c][2] + 1 # spans[d][1]

C16_Witness ==
    /\ Returned
    /\ \E k \in 1..Len(steps) :
          /\ steps[k].kind = "list"
          /\ steps[k].end_idx = steps[k].start + 1
          /\ At(lines, steps[k].start)[1] # At(lines, steps[k].end_idx)[1]
          /\ Len(list_marker(At(lines, steps[k].end_idx))) > 1
          /\ steps[k].resume < Len(lines)

----------------------------------------------------------------------------
(* parse_wiki_markup: the registries and the markers of the returned text *)

Extracted == pc = "ex_done"

\* every registration of the result: its category and its id
Registered ==
    [k \in 1..Len(infoboxes) |-> [category |-> INFOBOX, id |-> infoboxes[k].id]]
    \o [k \in 1..Len(tables) |-> [category |-> TABLE, id |-> tables[k].id]]
    \o [k \in 1..Len(bullet_groups) |-> [category |-> LIST, id |-> bullet_groups[k].id]]

\* the texts held by the registries: table contents and bullet items
PayloadTexts ==
    {tables[k].content : k \in 1..Len(tables)}
    \cup UNION {{bullet_groups[k].items[m] : m \in 1..Len(bullet_groups[k].items)} :
                    k \in 1..Len(bullet_groups)}

\* the marker of registration r occurs in text
MarkerIn(r, text) == Count(text, MarkerText(r.category, r.id)) > 0

\* C2: when parse_wiki_markup returns, every registered id is registered
\* once across infoboxes, tables and bullets, its marker occurs exactly once
\* in raw_text, and no marker lies inside the payload of another element.
C2_IdsOnceMarkersFlat ==
    Extracted =>
        \A k \in 1..Len(Registered) :
            LET r == Registered[k]
            IN  /\ \A m \in 1..Len(Registered) : Registered[m].id = r.id => m = k
                /\ Count(ex_raw_text, MarkerText(r.category, r.id)) = 1
                /\ \A text \in PayloadTexts : ~MarkerIn(r, text)

\* the list the loop of pass 3 visits next: its span in `parsed` and its source
VisitingList == pc = "ex_lists" /\ todo # <<>>
ListFirst == Head(todo)
ListLast == SpanEnd(parsed, ListFirst, "list_close")
ListSource == Render(SubSeq(parsed, ListFirst, ListLast))

RegistriesUnchanged ==
    /\ uid' = uid
    /\ infoboxes' = infoboxes /\ tables' = tables /\ bullet_groups' = bullet_groups

\* C17: a list whose trimmed source does not start with '*' gets no id, no
\* registry entry and no marker: the step that visits it only replaces its
\* source by the empty text, and nothing of it is left in raw_text.
C17_OtherListDiscarded ==
    /\ [][(VisitingList /\ ~StartsWith(Strip(ListSource), <<"*">>)) =>
            /\ RegistriesUnchanged
            /\ Render(parsed') = Render(SubSeq(parsed, 1, ListFirst - 1))
                                 \o Render(SubSeq(parsed, ListLast + 1, Len(parsed)))]_vars
    /\ [](Extracted => \A k \in 1..Len(ex_raw_text) : ex_raw_text[k] # "#")

C17_Witness ==
    /\ Extracted
    /\ \E k \in 1..Len(wiki_text) : wiki_text[k].t = "list_open" /\ wiki_text[k].marker = "#"
    /\ uid = 0
    /\ ex_raw_text # <<>>

\* the items of the visited list, each flattened to plain text and trimmed,
\* in source order, the empty ones left out
FlatItems ==
    LET its == items(parsed, ListFirst, ListLast)
        flat(item) == Strip(Render(SelectSeq(item, LAMBDA tok : tok.t = "text")))
    IN  SelectSeq([k \in 1..Len(its) |-> flat(its[k])], LAMBDA text : Len(text) > 0)

\* C18: the step that visits a list whose trimmed source starts with '*'
\* registers one element with a fresh id and the non-empty flattened items in
\* source order and puts __LIST_<id>__ in place of the list; when no item is
\* left it changes nothing.  '* a\n* b' alone gives one element with the two
\* items and raw_text is its marker.
C18_BulletListExtracted ==
    /\ [][(VisitingList /\ StartsWith(Strip(ListSource), <<"*">>)) =>
            IF FlatItems # <<>>
            THEN /\ uid' = uid + 1
                 /\ bullet_groups' = Append(bullet_groups,
                                            [id |-> get_id(uid'), items |-> FlatItems])
                 /\ infoboxes' = infoboxes /\ tables' = tables
                 /\ Render(parsed') = Render(SubSeq(parsed, 1, ListFirst - 1))
                                      \o MarkerText(LIST, get_id(uid'))
                                      \o Render(SubSeq(parsed, ListLast + 1, Len(parsed)))
            ELSE RegistriesUnchanged /\ parsed' = parsed]_vars
    /\ [](Extracted =>
            /\ \A k \in 1..Len(bullet_groups) :
                  Count(ex_raw_text, MarkerText(LIST, bullet_groups[k].id)) = 1
            /\ wiki_text = B_bullets =>
                  /\ bullet_groups = <<[id |-> get_id(1), items |-> <<<<"a">>, <<"b">>>>]>>
                  /\ ex_raw_text = MarkerText(LIST, get_id(1)))

C18_Witness ==
    /\ Extracted
    /\ wiki_text = B_bullets_mixed \o BlockGap \o B_bullets_cite
    /\ uid = 1
    /\ Len(bullet_groups) = 1 /\ bullet_groups[1].items = <<<<"b">>>>

\* the templates of the input whose trimmed name begins with "infobox" in
\* any letter case, in document order
InfoboxTemplates ==
    SelectSeq(wiki_text,
              LAMBDA tok : tok.t = "template"
                           /\ StartsWith(lower(Strip(tok.name)),
                                         <<"i", "n", "f", "o", "b", "o", "x">>))

\* the number of times text occurs in raw_text and the registered payloads
Occurrences(text) ==
    Count(ex_raw_text, text)
    + Cardinality({k \in 1..Len(tables) : Count(tables[k].content, text) > 0})
    + Cardinality({k \in 1..Len(bullet_groups) :
                      \E m \in 1..Len(bullet_groups[k].items) :
                          Count(bullet_groups[k].items[m], text) > 0})

\* C19: the infobox elements are, in order, those of the templates named
\* "infobox..." in any case; each payload has one entry per argument of its
\* template, trimmed name to trimmed value, and the template name; its marker
\* stands where the template was.  For '{{Infobox p |n=J |o=E}}', a blank
\* line and 'Hi' the fields are n: J and o: E and raw_text is the marker,
\* the blank line and 'Hi'.
C19_OneEntryPerArgument ==
    Extracted =>
        /\ Len(infoboxes) = Len(InfoboxTemplates)
        /\ \A k \in 1..Len(infoboxes) :
              LET tmpl == InfoboxTemplates[k]
                  data == infoboxes[k].data
              IN  /\ Cardinality(DOMAIN data \ {TemplateNameKey}) = Len(tmpl.arguments)
                  /\ \A a \in 1..Len(tmpl.arguments) :
                        /\ Strip(tmpl.arguments[a].name) \in DOMAIN data
                        /\ data[Strip(tmpl.arguments[a].name)] = Strip(tmpl.arguments[a].value)
                  /\ data[TemplateNameKey] = Strip(tmpl.name)
                  /\ Occurrences(MarkerText(INFOBOX, infoboxes[k].id)) = 1
        /\ wiki_text = B_infobox \o BlockGap \o B_text =>
              /\ Len(infoboxes) = 1
              /\ infoboxes[1].data[<<"n">>] = <<"J">>
              /\ infoboxes[1].data[<<"o">>] = <<"E">>
              /\ ex_raw_text = MarkerText(INFOBOX, infoboxes[1].id) \o <<NL, NL, "H", "i">>

\* the tables of the input, in document order: the source of each
InputTables ==
    LET opens == Positions(wiki_text, {k \in 1..Len(wiki_text) : wiki_text[k].t = "table_open"})
    IN  [k \in 1..Len(opens) |->
            Render(SubSeq(wiki_text, opens[k], SpanEnd(wiki_text, opens[k], "table_close")))]

\* C20: the table elements are, in order, the tables of the input; the
\* content of each is the table's source as it stands in the input, also when
\* the table holds an infobox template, and its marker is in raw_text once.
C20_TableContentIsInputSource ==
    Extracted =>
        /\ Len(tables) = Len(InputTables)
        /\ \A k \in 1..Len(tables) :
              /\ tables[k].content = InputTables[k]
              /\ Count(ex_raw_text, MarkerText(TABLE, tables[k].id)) = 1

----------------------------------------------------------------------------
\* C21: the row_count of a table chunk is the number of lines of its span
\* that begin with '|-'; text inside cells does not change it.
C21_RowCountIsSeparatorLines ==
    \A c \in Ids :
        heap[c].chunk_type = "table" =>
            heap[c].metadata.row_count =
                Cardinality({j \in spans[c][1]..spans[c][2] :
                                StartsWith(At(lines, j), <<"|", "-">>)})

----------------------------------------------------------------------------
(* get_context *)

GcDone == pc = "gc_done"

\* 0-based position of chunk c in the sequence
PositionOf(c) == (CHOOSE k \in 1..Len(all_chunks) : all_chunks[k] = c) - 1

\* C22: for the chunk at position p of n, get_context gives as 'before' the
\* min(before, p) chunks just before it and as 'after' the min(after, n-1-p)
\* chunks just after it, both in document order, and the chunk itself as
\* 'current'; the list is left as it was.
C22_ContextWindow ==
    /\ [](GcDone =>
            LET p == PositionOf(gc_chunk)
                n == size
                m == Min(gc_before, p)
                k == Min(gc_after, n - 1 - p)
            IN  /\ context.current = gc_chunk
                /\ context.before = SubSeq(all_chunks, p + 1 - m, p)
                /\ context.after = SubSeq(all_chunks, p + 2, p + 1 + k))
    /\ [][(pc \in {"done", "gc_before", "gc_after"}) =>
            (UNCHANGED <<heap, head, tail, size, all_chunks>>)]_vars

C22_Witness ==
    /\ GcDone
    /\ size = 3 /\ PositionOf(gc_chunk) = 1
    /\ gc_before = 2 /\ gc_after = 1
    /\ Len(context.before) = 1 /\ Len(context.after) = 1

\* the text that follows "{{Infobox" on the opening line up to the first '|',
\* trimmed
NameAfterInfobox(ln) ==
    Strip(Slice(ln, Len(InfoboxWord), FindAny(ln, Len(InfoboxWord), {"|", NL})))

MarkupDelimiters == {"{", "}", "|"}

\* C23: the infobox_type of an infobox chunk is the text that follows
\* "infobox" on the opening line up to the first '|' or the line end, trimmed;
\* it holds no markup delimiter such as the closing '}}', and it is 'unknown'
\* only when no such text follows.
C23_TypeIsNameAfterInfobox ==
    \A k \in 1..Len(steps) :
        steps[k].kind = "infobox" =>
            \A c \in ChunkOfStep(k) :
                LET nm == NameAfterInfobox(At(lines, steps[k].start))
                    t  == heap[c].metadata.infobox_type
                IN  /\ \A j \in 1..Len(t) : t[j] \notin MarkupDelimiters
                    /\ (t = Unknown) => (nm = <<>>)
                    /\ (nm # <<>> /\ \A j \in 1..Len(nm) : nm[j] \notin MarkupDelimiters)
                           => t = nm

\* a response of the shape the prompts ask for
WellFormedAnalysis(r) ==
    /\ r.parseable /\ r.top.type = "dict"
    /\ r.is_people_table.type = "bool"
    /\ r.mappings.type = "dict"
    /\ r.person_name.type \in {"str", "NoneType"}
    /\ r.location.type \in {"str", "NoneType", "absent"}
    /\ r.year.type \in {"str", "NoneType", "absent"}

WellFormedVerdict(r) ==
    /\ r.parseable /\ r.top.type = "dict"
    /\ r.valid.type = "bool"

\* the frames appended for table t
FramesOf(t) ==
    {k \in 1..Len(all_extracted_people) : accepted_under[k].table = t}

\* C24: whatever the collaborator returns - unparseable or empty text, JSON
\* that is not an object, an object with a missing or wrongly typed field -
\* process_page_html does not raise; the table the response was for is
\* rejected, the loop goes on to the remaining tables, and a DataFrame is
\* returned.
C24_CollaboratorErrorsNotFatal ==
    /\ pc # "pp_raised"
    /\ raised = ""
    /\ (/\ pc \in {"pp_loop", "pp_done"}
        /\ response # <<>>
        /\ \/ ~WellFormedAnalysis(response[1])
           \/ (verification # <<>> /\ ~WellFormedVerdict(verification[1])))
          => FramesOf(pp_i - 1) = {}
    /\ pc = "pp_done" => /\ Len(returned) = 1
                         /\ (page # <<>> => pp_i = Len(page) + 1)

\* C25: a table's rows are in the returned DataFrame only if its metadata
\* verdict has is_people_table true, its person_name mapping names one of its
\* columns and its verification verdict is valid; when no table of the page
\* meets all three, the returned DataFrame is empty.
C25_RowsOnlyFromAcceptedTables ==
    /\ \A k \in 1..Len(accepted_under) :
          LET u == accepted_under[k]
          IN  /\ u.analysis.is_people_table = PyTrue
              /\ in_columns(u.analysis.person_name, page[u.table])
              /\ u.verification.valid = PyTrue
    /\ pc = "pp_done" =>
          \A j \in 1..Len(returned[1].rows) :
              \E k \in 1..Len(all_extracted_people) :
                  \E n \in 1..Len(all_extracted_people[k]) :
                      returned[1].rows[j] = all_extracted_people[k][n]

\* what a chunk holds apart from its links
SameChunk(a, b) ==
    /\ a.chunk_type = b.chunk_type
    /\ a.content = b.content
    /\ a.level = b.level
    /\ a.metadata = b.metadata

\* the list with head h and registry all is, by its links and by its
\* registry, the chunk sequence parse_string makes of text c when run alone
ReturnsAsAlone(c, h, all) ==
    LET alone == parse_chunks(Split(c, NL), 0)
        walk  == WalkNext(h, Len(heap) + 1)
    IN  /\ Len(all) = Len(alone)
        /\ walk = all
        /\ \A k \in 1..Len(all) : SameChunk(heap[all[k]], alone[k])

\* the chunks listed in, or reachable through the links of, the chunks in all
LinkedFrom(all) ==
    {all[k] : k \in 1..Len(all)}
        \cup {heap[all[k]].next : k \in 1..Len(all)}
        \cup {heap[all[k]].prev : k \in 1..Len(all)}

\* C26: two calls of parse_string on one parser, interleaved in any order,
\* each return the chunk sequence they return when run alone, and no chunk
\* of one call is linked to or listed in the sequence of the other.
C26_RunsIndependent ==
    /\ pc = "done" => ReturnsAsAlone(content, head, all_chunks)
    /\ other.pc = "done" => ReturnsAsAlone(other.content, other.head, other.all_chunks)
    /\ (LinkedFrom(all_chunks) \ {None}) \cap (LinkedFrom(other.all_chunks) \ {None}) = {}

\* both calls have returned, each with chunks, the second having appended
\* between two appends of the first
C26_Witness ==
    /\ pc = "done" /\ other.pc = "done"
    /\ size = 2 /\ other.size >= 1
    /\ \E k \in 1..Len(other.all_chunks) :
          all_chunks[1] < other.all_chunks[k] /\ other.all_chunks[k] < all_chunks[2]

\* line j lies inside the span of a table or infobox chunk that starts before it
InsideEarlierBlock(j) ==
    \E c \in Ids :
        /\ heap[c].chunk_type \in {"table", "infobox"}
        /\ spans[c][1] < j /\ j <= spans[c][2]

\* C27: a line that matches the infobox-start pattern and does not lie inside
\* an earlier table or infobox span starts an infobox chunk, also when the
\* line before it is a paragraph line; it is never absorbed into a paragraph.
C27_InfoboxLineStartsInfobox ==
    Returned =>
        \A j \in 0..(Len(lines) - 1) :
            (infobox_start(At(lines, j)) /\ ~InsideEarlierBlock(j)) =>
                \E c \in Ids : heap[c].chunk_type = "infobox" /\ spans[c][1] = j

\* __iter__, lines 100-105, cut off after fuel chunks
Iterate(fuel) == WalkNext(head, fuel)

\* C28: after any appends - also of a chunk that is in this list already or
\* that carries links from another list - head.prev and tail.next are None,
\* the chain from head has no cycle and ends at tail, and it holds size chunks.
C28_AppendKeepsChain ==
    (pc = "ll" /\ head # None) =>
        LET walk == Iterate(Len(heap) + 1)
        IN  /\ heap[head].prev = None
            /\ heap[tail].next = None
            /\ Len(walk) <= Len(heap)
            /\ walk[Len(walk)] = tail
            /\ Len(walk) = size

\* every chunk of the list was appended once, to this list only
AppendedFreshOnly ==
    /\ \A j, k \in 1..Len(all_chunks) : all_chunks[j] = all_chunks[k] => j = k
    /\ \A j \in 1..Len(all_chunks), k \in 1..Len(other.all_chunks) :
          all_chunks[j] # other.all_chunks[k]

\* C29: after appends of distinct new chunks, iteration from head yields the
\* chunks of to_list() in order, len() is their number, get_chunk_before and
\* get_chunk_after of a chunk are its neighbours in to_list(), and
\* find_chunks_by_type(k) is the chunks of kind k in that order.
C29_RepresentationsAgree ==
    (pc = "ll" /\ AppendedFreshOnly) =>
        LET n == Len(to_list)
            walk == Iterate(Len(heap) + 1)
        IN  /\ walk = to_list
            /\ len = n
            /\ \A k \in 1..n :
                  /\ get_chunk_before(to_list[k]) = IF k = 1 THEN None ELSE to_list[k - 1]
                  /\ get_chunk_after(to_list[k]) = IF k = n THEN None ELSE to_list[k + 1]
            /\ \A kind \in ChunkKinds :
                  find_chunks_by_type(kind) =
                      SelectSeq(walk, LAMBDA c : heap[c].chunk_type = kind)

\* three new chunks of two kinds appended, the other list not empty
C29_Witness ==
    /\ pc = "ll" /\ AppendedFreshOnly
    /\ size = 2 /\ other.size = 1
    /\ heap[all_chunks[1]].chunk_type # heap[all_chunks[2]].chunk_type

\* the chunks whose span holds line j
Owners(j) == {c \in Ids : spans[c][1] <= j /\ j <= spans[c][2]}

\* C30: the spans of the chunks are disjoint and increase along the sequence;
\* every non-blank line lies in exactly one span; a blank line lies in a span
\* only inside a table or infobox, never as a chunk of its own; no paragraph
\* chunk has empty or whitespace-only content.
C30_SpansPartitionLines ==
    /\ \A c \in Ids : spans[c][1] <= spans[c][2]
    /\ \A k \in 2..Len(all_chunks) :
          spans[all_chunks[k - 1]][2] < spans[all_chunks[k]][1]
    /\ \A c \in Ids : heap[c].chunk_type = "paragraph" => Strip(heap[c].content) # <<>>
    /\ Returned =>
          \A j \in 0..(Len(lines) - 1) :
              IF blank(At(lines, j))
              THEN \A c \in Owners(j) :
                      /\ heap[c].chunk_type \in {"table", "infobox"}
                      /\ spans[c][1] < j
              ELSE Cardinality(Owners(j)) = 1

\* a blank line between two paragraphs, in the span of neither
C30_Witness ==
    /\ Returned /\ Len(lines) = 3
    /\ blank(At(lines, 1))
    /\ size = 2 /\ Owners(1) = {}
    /\ heap[all_chunks[1]].chunk_type = "paragraph"
    /\ heap[all_chunks[2]].chunk_type = "paragraph"

====
